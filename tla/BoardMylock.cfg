SPECIFICATION Spec
CONSTANTS
  s1 = s1  s2 = s2  c1 = c1  c2 = c2  c3 = c3
  NoOne = NoOne
  Servers = {s1}
  Clients = {c1, c2}
  Posters = {c1, c2}
  Readers = {c1, c2}
  ServerOf <- OneServer
  RECORD_NUM = 3
  MaxPosts = 2
  Paced = TRUE
  MaxStarts = 1
  MaxFaults = 0
INVARIANTS MylockExact
