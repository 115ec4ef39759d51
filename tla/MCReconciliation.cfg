\* Two handlers in flight over one statement of up to two lines.
CONSTANTS
  TopUps = {t1}
  UpiPayments = {u1}
  References = {r1}
  Lines = {l1, l2}
  NoLine = NoLine
  Slots = {s1, s2}
  Statements = {f1}
  Keys <- OneKey
  Processes = {{s1, s2}}
  MaxCrashes = 1
SPECIFICATION Spec
SYMMETRY Sym
INVARIANTS
  TypeOK
  
  
  MachineCreditsExactly
  
CHECK_DEADLOCK FALSE
