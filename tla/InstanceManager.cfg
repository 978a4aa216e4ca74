SPECIFICATION Spec
CONSTANTS
  Api = {a1, a2}
  Calls = {"connect", "disconnect", "delete", "update", "close", "afk", "teleport", "dialog", "defer_dialog", "show_dialog", "dismiss_dialog"}
  MaxDeferredDialogs = 1
  MaxConnects = 2
  MaxClients = 2
  MaxDialogs = 2
  MaxCalls = 3
INVARIANTS
  TypeOK
  CurrentOnly
  AnsweredOnce
CHECK_DEADLOCK FALSE
