SPECIFICATION ConfigSpec
CONSTANTS
  p1 = p1
  p2 = p2
  c1 = c1
  c2 = c2
  c3 = c3
  claude = claude
  prompt = prompt
  Pid = {p1, p2}
  Key = {claude, prompt}
  Call = {c1, c2, c3}
  NoPid = NoPid
  Detached = {prompt}
CHECK_DEADLOCK FALSE
PROPERTY NoLostUpdate
