SPECIFICATION Spec
CONSTANTS
    Package <- MCPackage
    PageSize = 2
    Limits = {1}
    Absent = Absent
    Garbled = Garbled
    MaxRows = 4
    MaxInitialRows = 3
INVARIANTS NoSkips RepeatsWithinArrivals AddressIsOfContent
PROPERTIES NestsOnlyFromFind
