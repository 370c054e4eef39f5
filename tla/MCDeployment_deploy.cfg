\* Every configuration, machine, bundle and yaml file of a small set, once.
SPECIFICATION Spec
CONSTANTS
  Second = 10000
  MaxInt = 3999999
  Parts = {"", "*", "a", "b", "g", "h"}
  Files <- SomeFiles
  Interfaces <- SomeInterfaces
  Bundles <- SomeBundles
  LocalFiles <- SomeLocalFiles
  Uris <- AskedUris
  Groups <- AskedGroups
  Words = {"get", "put"}
INVARIANTS
  TypeOK
  OnlyValidFilesGetOn
  TimeoutsInForce
  BindsReachably
  FileLookupExact
  FoundIsServed
PROPERTIES
  TimerFindsTheTables
CHECK_DEADLOCK FALSE
