CONSTANTS
  o1 = o1
  o2 = o2
  Base = Base
  Derived = Derived
  NoClass = NoClass
  NullAddress = NullAddress
  AnyKind = AnyKind
  NoHandle = NoHandle
  Objects <- MCObjects
  Classes <- MCClasses
  Addresses <- MCAddresses
  Kinds <- MCKinds
  Descendants <- MCDescendants
  MaxOwners = 2
  MaxRegistrations = 2
  Width <- MCWidth
  DoubleBits = 5
  FloatBits = 3
  Limit <- MCLimit
SYMMETRY MCSymmetry
SPECIFICATION ReflectionSpec
INVARIANTS
  ActsOnTheNamedObject
  AnswersAreTrue
  ProxiesStayUsable
  HandlesAreSound
  ValuesKeepTheirMeaning
PROPERTIES
  ImplementsRegistry
CHECK_DEADLOCK FALSE
