SPECIFICATION FairSpec
CONSTANTS
    None = None
    Customer = customer
    Provider = provider
    MaxDeliveries = 2
    EmailRetries = 1
    Callers = {customer}
    Choices <- MCChoices
INVARIANTS
    TypeOK
    NoDuplicates
    FailureStaysWithItsRecipient
    StampedAfterBoth
    ChosenSettingsStay
PROPERTY
    EveryDeliveryEnds
CHECK_DEADLOCK FALSE
