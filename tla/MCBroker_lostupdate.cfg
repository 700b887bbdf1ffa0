SPECIFICATION Spec
CONSTANTS
  root = root
  agent = agent
  stranger = stranger
  h1 = h1
  h2 = h2
  c1 = c1
  c2 = c2
  k1 = k1
  k2 = k2
  Handlers = {h1, h2}
  Caps = {c1, c2}
  Keys = {k1, k2}
  Uids = {root, agent, stranger}
  AllowedUids = {agent}
  OwnerUids = {root}
  Requests <- AllRequests
  NoSpec = NoSpec
  NoKey = NoKey
  NoReq = NoReq
SYMMETRY Threads
INVARIANTS
  RegisterReadsBack
