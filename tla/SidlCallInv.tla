---------------------------- MODULE SidlCallInv -----------------------------
(***************************************************************************)
(* Why a call through the bindings comes out right: the inductive invariant *)
(* of SidlCall.  Each place a call can be at says what is in the slots, the *)
(* implementation's parameters and the objects on the caller's side.        *)
(***************************************************************************)
EXTENDS SidlCall

(* What the generators need of an architecture and of an interface: a slot  *)
(* for the ins and one for the outs, and for every type passed by value a   *)
(* size the server generator knows and a register holds.                    *)
Sized(ps) ==
  \A i \in DOMAIN ps : ByValue(ps[i]) => ServerSize(ps[i].type) \in 1 .. PointerSize

Generable == Slots >= 2 /\ \A ps \in UNION Range(Signatures) : Sized(ps)

(* The sides were built from artifacts of one interface.                    *)
BuiltInv ==
  /\ \E I \in Interfaces : built.client \in I /\ built.server \in I
  /\ built.vtable \subseteq {f.name : f \in FunctionsOf(built.server)}

(* At rest nothing is left of the call before.                              *)
AtRest ==
  /\ call = NoCall /\ args = <<>> /\ recv = <<>> /\ served = ""
  /\ cells = <<>> /\ locals = <<>> /\ wrote = {} /\ status = "none"

(* A call is one of the client's functions, with parameters of its name.    *)
Calling(f) ==
  /\ call.id = f.id /\ call.name = f.name
  /\ call.params \in Signatures[f.name]
  /\ call.given \in Passed(call.params)
  /\ call.declared \in ServerParams(f, call.params)

CallInv ==
  /\ pc \in {"idle", "query", "send", "dispatch", "serve", "reply", "returned"}
  /\ IF pc = "idle" THEN AtRest ELSE \E f \in FunctionsOf(built.client) : Calling(f)

(* The objects on the caller's side, untouched until the implementation     *)
(* has run; wrote records whom it assigned.                                 *)
Objects ==
  /\ DOMAIN cells = DOMAIN call.params
  /\ DOMAIN locals = DOMAIN call.params
  /\ \A i \in DOMAIN locals : locals[i] \in {"unset", "written"}

Untouched ==
  /\ wrote = {}
  /\ \A i \in DOMAIN call.params : cells[i] = "before" /\ locals[i] = "unset"

ObjectsInv ==
  /\ Objects
  /\ pc \in {"query", "send", "dispatch", "serve"} => Untouched

(* The slots hold the wrapper's frame once it is sent.                      *)
Sent == args = Frame(call.params, call.given)

ArgsInv ==
  /\ pc \in {"query", "send"} => args = <<>> /\ status = "none"
  /\ pc \in {"dispatch", "serve", "reply"} => Sent
  /\ pc = "dispatch" => status = "none"
  /\ pc = "returned" => args = <<>> \/ Sent

(* What the implementation receives was taken out of that frame, under an   *)
(* id that the dispatcher knows.                                            *)
Entered ==
  /\ KnownId(call.id)
  /\ Sent
  /\ recv = Received(call.declared, args, call.given)

ReceivedInv ==
  /\ recv = <<>> \/ Entered
  /\ wrote \subseteq DOMAIN recv
  /\ pc \in {"query", "send", "dispatch"} => recv = <<>>

ServedInv ==
  pc = "serve" =>
    /\ Entered
    /\ status = "none"
    /\ \E f \in FunctionsOf(built.server) : f.id = call.id /\ served = f.name

(* A status and what it says of the out values; "invalid_value" is not      *)
(* among those of calls the sides agree on.                                 *)
StatusInv ==
  /\ status = "not_implemented" => ~KnownId(call.id)
  /\ status = "invalid_value" => ~Agreed
  /\ status = "success" => Entered

(* Before the wrapper returns, an out value that was asked for is where the *)
(* implementation was told to put it.                                       *)
Ready(i) ==
  /\ status = "success" /\ call.given[i] # Null =>
       IF Direct(call.params, i) THEN cells[i] = "written" ELSE locals[i] = "written"
  /\ ~Direct(call.params, i) => cells[i] = "before"

ReplyInv ==
  pc = "reply" =>
    /\ \A i \in DOMAIN cells : cells[i] \in {"before", "written"}
    /\ Agreed => \A i \in Outs(call.params) : Ready(i)

ReturnedInv ==
  pc = "returned" =>
    /\ \A i \in DOMAIN cells : cells[i] \in {"before", "written"} \/ (~Agreed /\ cells[i] = "unset")
    /\ OutsDelivered

IInv ==
  /\ BuiltInv
  /\ CallInv
  /\ ObjectsInv
  /\ ArgsInv
  /\ ReceivedInv
  /\ ServedInv
  /\ StatusInv
  /\ ReplyInv
  /\ ReturnedInv
=============================================================================
