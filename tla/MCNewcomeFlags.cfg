SPECIFICATION FairSpec
CONSTANTS
    status = status
    accl = accl
    gyro = gyro
    power = power
    body_state = body_state
    imu = imu
    battery = battery
    NoPublisher = NoPublisher
    Status = status
    Topics = {accl, gyro, power}
    Rank <- MCRank
    Publishers = {imu, battery}
    TopicsOf <- MCTopicsOf
    Eager = {battery}
    Subscribable = {imu, battery}
INVARIANTS
    IInv
    SentBounded
PROPERTIES
    LostOnlyIfOvertaken
    FlaggedIsTaken
