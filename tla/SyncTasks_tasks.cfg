CONSTANTS
  Callers = {c1, c2}
  Scopes = {"usage", "full", "keys"}
  Retained = {"usage", "full"}
  Gated = {"usage", "full"}
  Scheduled = "usage"
  Together = {{"usage", "keys"}, {"full", "keys"}}
  Runs = {h1, h2}
  Background = Background
  None = None
SPECIFICATION FairSpec
INVARIANTS SingleRun AnswersAreFresh
PROPERTIES EveryRunCompletes RetainedStaysVisible
