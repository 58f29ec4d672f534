SPECIFICATION QueueSpec
CONSTANTS
  Threads = {t1, t2}
  Poller = Poller
  Tasks = {a, b, c}
  Stub = Stub
  Null = Null
SYMMETRY Symmetry
INVARIANTS QueueTypeOK LinkTargetInQueue NoTaskStranded
PROPERTIES ImplementsFifo PopAnswersAllowed
