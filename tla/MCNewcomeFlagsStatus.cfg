SPECIFICATION Spec
CONSTANTS
    status = status
    accl = accl
    gyro = gyro
    power = power
    body_state = body_state
    imu = imu
    battery = battery
    NoPublisher = NoPublisher
    Status = status
    Topics = {status, accl, gyro, power}
    Rank <- MCStatusRank
    Publishers = {body_state, imu, battery}
    TopicsOf <- MCStatusTopicsOf
    Eager = {battery}
    Subscribable = {body_state, imu, battery}
PROPERTIES
    ResetBySender
