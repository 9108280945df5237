\* One reader of the server list and two servers of two pieces each, two
\* publishers, two changes, two attempts.
CONSTANTS
  s1 = s1
  s2 = s2
  d1 = d1
  d2 = d2
  Readers = {r1}
  Publishers = {p1, p2}
  Serving = {s0, s1, s2}
  Durable = {d1, d2}
  Servers = {{s1, d1}, {s2, d2}}
  Unread = Unread
  Missing = Missing
  MaxChanges = 2
  MaxErrors = 2
  Retries = 2
SPECIFICATION Spec
SYMMETRY EpochSymmetry
INVARIANTS
  ServedIsOneCatalog
