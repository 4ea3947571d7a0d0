SPECIFICATION Spec
CONSTANTS
    Message = {"good", "bad"}
    Poison = {"bad"}
    MaxDeliveryAttempts = 2
    ProcessorCommand = "main:app"
PROPERTY Provisioned
CHECK_DEADLOCK FALSE
