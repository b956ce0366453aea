\* One worker; pages come in full or not at all, and the number of the last
\* page has two digits.
SPECIFICATION Spec
CONSTANTS
  ItemPerPage = 2
  Radix = 3
  MaxPage = 3
  MaxVersion = 1
  Worker = {w1}
  NoOne = NoOne
  Sizes = {0, 2}
  MaxItems = 10
INVARIANTS
  TypeOK
  BlocksWhole
  CacheOwnPage
  Settled
PROPERTIES
  NeverOlder
