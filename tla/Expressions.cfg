SPECIFICATION Spec
CONSTANTS
  Width = 5
  Passes = 2
  Useless <- MCUseless
  Globals <- MCGlobals
  Scripts <- MCScripts
  Memories <- MCMemories
INVARIANTS
  ParsesByBindingPower
  EnginesAgree
  RewritingKeepsValue
  GlobalsStayConstant
CHECK_DEADLOCK FALSE
