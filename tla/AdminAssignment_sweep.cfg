\* One request that bridges a work item, at first claimed, two stages, one admin, one
\* caller, three rows: offers swept together, second silences, completions beside a cancel.
SPECIFICATION FairSpec
CONSTANTS
  a1 = a1
  a2 = a2
  r1 = r1
  r2 = r2
  c1 = c1
  c2 = c2
  Nobody = Nobody
  Requests = {r1}
  Stages = {"levi", "gojo"}
  Admins = {a1}
  Bots <- EveryBot
  Weight <- EqualWeight
  Preferred = {}
  Linked = {r1}
  Claimed = {r1}
  Callers = {c1}
  MaxRows = 3
PROPERTIES
  SilentOffersAreSwept
  TerminalWorkStaysClosed
CHECK_DEADLOCK FALSE
