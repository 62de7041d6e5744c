---------------------------- MODULE EepromStore ----------------------------
(***************************************************************************)
(* What the EEPROM emulation promises its caller: a map from virtual       *)
(* addresses to values, in which a write takes effect at once or not at    *)
(* all, whenever the power fails, and an acknowledged write has taken      *)
(* effect.                                                                 *)
(***************************************************************************)
CONSTANTS Vars, Data

VARIABLES
  store,    \* the stored values: a function on the addresses written so far
  req,      \* the write under way, NoRequest if there is none
  result    \* what the last write returned

NoRequest == [var |-> 0, data |-> 0]
Requests == [var : Vars, data : Data]

\* The store once request r has taken effect.
Written(r) ==
  [v \in DOMAIN store \union {r.var} |-> IF v = r.var THEN r.data ELSE store[v]]

Init == store = <<>> /\ req = NoRequest /\ result = "none"

Begin ==
  /\ req = NoRequest
  /\ req' \in Requests
  /\ result' = "none"
  /\ UNCHANGED store

TakeEffect ==
  /\ req # NoRequest
  /\ store' = Written(req)
  /\ UNCHANGED <<req, result>>

Return ==
  /\ req # NoRequest
  /\ \/ result' = "ok" /\ store' = Written(req)
     \/ result' = "error" /\ UNCHANGED store
  /\ req' = NoRequest

PowerLoss ==
  /\ req' = NoRequest
  /\ result' = "none"
  /\ UNCHANGED store

Next == Begin \/ TakeEffect \/ Return \/ PowerLoss

Spec == Init /\ [][Next]_<<store, req, result>>
=============================================================================
