CONSTANTS
    Serials = {"phone"}
    Placeholders = {}
    Ports = {1, 2}
    Absent = Absent
    MaxFaults = 3
    MaxRequests = 2
SPECIFICATION ProvisioningSpec
INVARIANTS
    RequestsAreNotLost
PROPERTIES
    LinksAreHealed
