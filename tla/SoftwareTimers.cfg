CONSTANTS
    a = a
    b = b
    c = c
    d = d
    Owner <- MCOwner
    Interval <- MCInterval
    kSoftwareTimersMax = 3
    OneShot <- MCOne
SPECIFICATION TimersSpec
PROPERTY ActsAsTimerSet TimersFire
