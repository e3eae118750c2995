SPECIFICATION Spec
CONSTANTS
  Firmwares <- TwoFirmwares
  Dynamic = {}
  Variants = {FALSE}
  Cells = 8
  MaxSaves = 2
  MaxBoots = 3
  MaxChanges = 0
INVARIANT TableKept
CHECK_DEADLOCK FALSE
