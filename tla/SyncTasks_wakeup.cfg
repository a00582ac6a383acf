CONSTANTS
  Callers = {c1, c2}
  Scopes = {"usage"}
  Retained = {"usage"}
  Gated = {"usage"}
  Scheduled = "usage"
  Together = {{"usage"}}
  Runs = {h1, h2, h3}
  Background = Background
  None = None
SPECIFICATION FairSpec
PROPERTY EveryJoinerReturns
