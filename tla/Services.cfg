SPECIFICATION Spec
INVARIANTS TypeOK
           StoreRecovers
           DataSurvives
           RadioShared
           SleepSound
           MeasurementsSound
           CryptoAgrees
           KeysHandled
           FramesKept
PROPERTIES StepsSound
           RequestsAnswered
           ClockSettles
CHECK_DEADLOCK FALSE
