------------------------------ MODULE SidlCall ------------------------------
(***************************************************************************)
(* One call through the generated C bindings.  The client wrapper           *)
(* (lang/c_user_source_generator.cc) packs its parameters into the argument *)
(* slots of StHandle_Call<n> or StHandle_CallN; the server's dispatcher     *)
(* (lang/c_module_source_generator.cc) takes them out again.  Each          *)
(* generator decides by itself, from its own idea of a type's size, which   *)
(* parameters travel in a slot and which in memory.                         *)
(*                                                                          *)
(* The two sides may be generated from different artifacts of an interface: *)
(* an older and a newer one, or two that were extended independently.       *)
(* StHandle_Query, StHandle_Call* and the implementation behind the vtable  *)
(* are not generated; they are modelled from how the generated code uses    *)
(* them.  Values and addresses are tagged tuples.                           *)
(***************************************************************************)
EXTENDS Sif, SequencesExt

CONSTANTS
  BuiltinSize,  \* the sizes of the builtin types, by name
  MaxRegArgs,   \* register arguments of the architecture
  PointerSize,  \* and the size of its pointers
  Interfaces,   \* for each interface, the nodes of its artifacts
  Decls,        \* per revision: its enums, bitfields and structs
  Signatures    \* parameter lists, by function name

Directions == {"in", "out", "inout"}

ASSUME ArchAssumption == MaxRegArgs \in Nat /\ MaxRegArgs > 2 /\ PointerSize \in Nat
ASSUME SignatureAssumption ==
  \A ps \in UNION Range(Signatures) :
    /\ IsSeq(ps)
    /\ \A i \in DOMAIN ps :
         ps[i].dir \in Directions /\ ps[i].ptr \in BOOLEAN /\ ps[i].array \in BOOLEAN

VARIABLES
  pc,       \* where the call is
  built,    \* the history each side was generated from, and the functions the
            \* server's vtable has an implementation of
  call,     \* the wrapper called: function id, parameters, what was passed;
            \* and the parameters the server's artifact declares for that id
  args,     \* the argument slots of the dispatcher
  recv,     \* what the implementation receives
  served,   \* which implementation was entered
  cells,    \* the caller's objects the out and inout parameters point to
  locals,   \* the wrapper's own out objects
  wrote,    \* history variable: the parameters the implementation assigned
  status    \* the status returned

vars == <<pc, built, call, args, recv, served, cells, locals, wrote, status>>

Null == <<"null">>
Junk == <<"junk">>            \* an unspecified slot, or what a wild pointer yields
Value(i) == <<"value", i>>    \* a parameter passed by value
Cell(i) == <<"cell", i>>      \* the address of the caller's i-th object
Spill(i) == <<"spill", i>>    \* the address of the wrapper's i-th parameter
Local(i) == <<"local", i>>    \* the address of the wrapper's out object for it
InBlock(S) == <<"in", S>>     \* the address of the wrapper's struct in
OutBlock(S) == <<"out", S>>   \* the address of the wrapper's struct out

(***************************************************************************)
(* What either side believes about types.                                   *)
(***************************************************************************)

(* TypeNode::type_size of a type read from an artifact: never assigned.     *)
ClientSize(type) == 0

(* The order in which the server generator registers declared types.        *)
ServerOrder ==
  FlattenSeq([r \in DOMAIN Decls |->
                Decls[r].enums \o Decls[r].bitfields \o Decls[r].structs])

(* type_value_infos: an enum or a bitfield takes the size its base has at   *)
(* that moment; a struct, and a base not registered yet, has size zero.     *)
SizeIn(infos, type) == IF type \in DOMAIN infos THEN infos[type] ELSE 0

Registered ==
  LET infos[n \in 0 .. Len(ServerOrder)] ==
        IF n = 0 THEN BuiltinSize
        ELSE LET decl == ServerOrder[n]
             IN [t \in DOMAIN infos[n - 1] \cup {decl.name} |->
                   IF t = decl.name THEN SizeIn(infos[n - 1], decl.base)
                   ELSE infos[n - 1][t]]
  IN infos[Len(ServerOrder)]

ServerSize(type) == SizeIn(Registered, type)

ByValue(p) == p.dir = "in" /\ ~p.ptr /\ ~p.array

(* The parameters each side takes for scalars that fit a register.          *)
ClientScalars(ps) ==
  {i \in DOMAIN ps : ByValue(ps[i]) /\ ClientSize(ps[i].type) <= PointerSize}

ServerScalars(ps) ==
  {i \in DOMAIN ps : ByValue(ps[i]) /\ ServerSize(ps[i].type) \in 1 .. PointerSize}

(***************************************************************************)
(* The partition of a parameter list, the same text in both generators.     *)
(***************************************************************************)
Slots == MaxRegArgs - 2
PeelSlots == IF Slots > 2 THEN Slots - 2 ELSE 0

InRegisters(ps, scalars) == Len(ps) <= Slots /\ scalars = DOMAIN ps

Outs(ps) == {i \in DOMAIN ps : ps[i].dir = "out"}

\* How many members of S come before i.
Rank(S, i) == Cardinality({j \in S : j < i})

(* The first scalars get a slot of their own next to in and out.            *)
Peeled(ps, scalars) == {i \in scalars : Rank(scalars, i) < PeelSlots}

Ins(ps, scalars) == DOMAIN ps \ (Outs(ps) \cup Peeled(ps, scalars))

Sole(S) == CHOOSE i \in S : TRUE

(***************************************************************************)
(* The client: the argument slots the wrapper fills.                        *)
(***************************************************************************)
InSlot(ps, given) ==
  LET ins == Ins(ps, ClientScalars(ps))
      i == Sole(ins)
  IN IF ins = {} THEN Null
     ELSE IF Cardinality(ins) > 1 THEN InBlock(ins)
     ELSE IF ps[i].ptr THEN given[i] ELSE Spill(i)

(* A single out pointer is handed through, anything else is collected.      *)
Direct(ps, i) == Outs(ps) = {i} /\ ps[i].ptr

OutSlot(ps, given) ==
  LET outs == Outs(ps)
      i == Sole(outs)
  IN IF outs = {} THEN Null
     ELSE IF Cardinality(outs) > 1 THEN OutBlock(outs)
     ELSE IF Direct(ps, i) THEN given[i] ELSE Local(i)

\* The peeled parameters start in the first slot.
FramePeelFirst(ps, given) ==
  IF InRegisters(ps, ClientScalars(ps))
  THEN [s \in 1 .. Slots |-> IF s \in DOMAIN ps THEN given[s] ELSE Junk]
  ELSE LET peeled == Peeled(ps, ClientScalars(ps)) IN
       [s \in 1 .. Slots |->
          IF s = PeelSlots + 1 THEN InSlot(ps, given)
          ELSE IF s = PeelSlots + 2 THEN OutSlot(ps, given)
          ELSE IF \E i \in peeled : Rank(peeled, i) = s - 1
               THEN given[CHOOSE i \in peeled : Rank(peeled, i) = s - 1]
               ELSE Null]

(* StHandle_Call<n>: one slot per parameter.  StHandle_CallN: in, out, and  *)
(* the peeled parameters, padded with 0.                                    *)
Frame(ps, given) ==
  IF InRegisters(ps, ClientScalars(ps))
  THEN [s \in 1 .. Slots |-> IF s \in DOMAIN ps THEN given[s] ELSE Junk]
  ELSE LET peeled == Peeled(ps, ClientScalars(ps)) IN
       [s \in 1 .. Slots |->
          IF s = 1 THEN InSlot(ps, given)
          ELSE IF s = 2 THEN OutSlot(ps, given)
          ELSE IF \E i \in peeled : Rank(peeled, i) = s - 3
               THEN given[CHOOSE i \in peeled : Rank(peeled, i) = s - 3]
               ELSE Null]

(***************************************************************************)
(* The server: what the dispatcher reads back.                              *)
(***************************************************************************)

(* Memory behind a slot: the wrapper's parameter, or a member of its struct *)
(* when the struct declared here has the same members.                      *)
Load(ptr, i, given) == IF ptr = Spill(i) THEN given[i] ELSE Junk
LoadField(ptr, S, i, given) == IF ptr = InBlock(S) THEN given[i] ELSE Junk
FieldAddress(ptr, S, i) == IF ptr = OutBlock(S) THEN Local(i) ELSE Junk

(* The dispatcher refuses a null where it expects its structs.              *)
Refused(ps, slots) ==
  LET ins == Ins(ps, ServerScalars(ps))
  IN /\ ~InRegisters(ps, ServerScalars(ps))
     /\ \/ /\ Cardinality(ins) > 1 \/ (Cardinality(ins) = 1 /\ ~ps[Sole(ins)].ptr)
           /\ slots[1] = Null
        \/ Cardinality(Outs(ps)) > 1 /\ slots[2] = Null

\* The single in parameter is always read through the slot.
ReadInAlwaysLoads(ps, slots, given, i) ==
  LET ins == Ins(ps, ServerScalars(ps))
  IN IF ins = {i} THEN Load(slots[1], i, given) ELSE LoadField(slots[1], ins, i, given)

ReadIn(ps, slots, given, i) ==
  LET ins == Ins(ps, ServerScalars(ps))
  IN IF ins # {i} THEN LoadField(slots[1], ins, i, given)
     ELSE IF ps[i].ptr THEN slots[1] ELSE Load(slots[1], i, given)

ReadOut(ps, slots, i) ==
  IF Outs(ps) = {i} THEN slots[2] ELSE FieldAddress(slots[2], Outs(ps), i)

Received(ps, slots, given) ==
  LET scalars == ServerScalars(ps)
      peeled == Peeled(ps, scalars)
  IN [i \in DOMAIN ps |->
        IF InRegisters(ps, scalars) THEN slots[i]
        ELSE IF i \in Outs(ps) THEN ReadOut(ps, slots, i)
        ELSE IF i \in peeled THEN slots[3 + Rank(peeled, i)]
        ELSE ReadIn(ps, slots, given, i)]

(***************************************************************************)
(* Function ids on either side.                                             *)
(***************************************************************************)
(* The vtable's fields in the order the header generator visits functions.  *)
VTable(h) == FlattenSeq([r \in DOMAIN h |-> [j \in DOMAIN h[r].funcs |-> h[r].funcs[j].name]])

\* The span is the last function's id.
FuncidSpanLast(h) ==
  LET filled == {r \in DOMAIN h : h[r].funcs # <<>>}
  IN IF filled = {} THEN 0 ELSE Last(h[Max(filled)].funcs).id

(* total_funcid_span: one more than the id of the last function visited.    *)
FuncidSpan(h) ==
  LET filled == {r \in DOMAIN h : h[r].funcs # <<>>}
  IN IF filled = {} THEN 0 ELSE Last(h[Max(filled)].funcs).id + 1

FunctionsOf(h) == UNION {{h[r].funcs[j] : j \in DOMAIN h[r].funcs} : r \in DOMAIN h}

(* What a reader accepts is numbered without gap (FuncIdsDense); the names  *)
(* of an interface's functions are members of one struct, its vtable.       *)
ASSUME HistoryAssumption == \A h \in UNION Interfaces :
  /\ IsSeq(h)
  /\ \A r \in DOMAIN h :
       /\ IsSeq(h[r].funcs)
       /\ \A j \in DOMAIN h[r].funcs : h[r].funcs[j].id \in Nat
  /\ Span(h) \in Nat /\ DenseIds(h, Span(h))
  /\ \A f, g \in FunctionsOf(h) : f.name = g.name => f.id = g.id
ASSUME NameAssumption ==
  \A h \in UNION Interfaces : \A f \in FunctionsOf(h) : f.name \in DOMAIN Signatures

(* The revisions two histories begin with both.                             *)
CommonPast(h, g) == LongestCommonPrefix({h, g})

(***************************************************************************)
(* The call.                                                                *)
(***************************************************************************)
NoCall == [id |-> 0, name |-> "", params |-> <<>>, given |-> <<>>, declared |-> <<>>]

Init ==
  /\ pc = "idle"
  /\ \E I \in Interfaces : \E c, s \in I : \E V \in SUBSET {f.name : f \in FunctionsOf(s)} :
       built = [client |-> c, server |-> s, vtable |-> V]
  /\ call = NoCall /\ args = <<>> /\ recv = <<>> /\ served = ""
  /\ cells = <<>> /\ locals = <<>> /\ wrote = {} /\ status = "none"

(* What a caller may pass: a value, or a pointer to an object of its own; a *)
(* null pointer says that an out value is not wanted.                       *)
Passed(ps) ==
  {[i \in DOMAIN ps |-> IF i \in N THEN Null
                        ELSE IF ps[i].dir = "in" THEN Value(i) ELSE Cell(i)] :
     N \in SUBSET Outs(ps)}

(* A function both artifacts hold is declared alike; an id both sides gave  *)
(* out on their own may have any other parameters on the server.            *)
ServerParams(f, ps) ==
  IF f \in FunctionsOf(CommonPast(built.client, built.server)) THEN {ps}
  ELSE UNION {Signatures[g.name] : g \in FunctionsOf(built.server)}

Call ==
  /\ pc = "idle"
  /\ \E f \in FunctionsOf(built.client) : \E ps \in Signatures[f.name] :
     \E g \in Passed(ps), qs \in ServerParams(f, ps) :
       call' = [id |-> f.id, name |-> f.name, params |-> ps, given |-> g, declared |-> qs]
  /\ cells' = [i \in DOMAIN call'.params |-> "before"]
  /\ locals' = [i \in DOMAIN call'.params |-> "unset"]
  /\ pc' = "query"
  /\ UNCHANGED <<built, args, recv, served, wrote, status>>

(* Each wrapper asks for the function id base first.                        *)
Query ==
  /\ pc = "query"
  /\ \/ /\ pc' = "send"
        /\ UNCHANGED status
     \/ /\ pc' = "returned"
        /\ status' = "query_failed"
  /\ UNCHANGED <<built, call, args, recv, served, cells, locals, wrote>>

Send ==
  /\ pc = "send"
  /\ args' = Frame(call.params, call.given)
  /\ pc' = "dispatch"
  /\ UNCHANGED <<built, call, recv, served, cells, locals, wrote, status>>

Reply(st) == status' = st /\ pc' = "reply" /\ UNCHANGED <<recv, served>>

\* Only the span is checked, not the slot.
KnownIdSpanOnly(id) == id < FuncidSpan(built.server)

KnownId(id) ==
  /\ id < FuncidSpan(built.server)
  /\ VTable(built.server)[id + 1] \in built.vtable

(* <prefix>ServerDispatchArgs.                                              *)
Dispatch ==
  /\ pc = "dispatch"
  /\ \/ ~KnownId(call.id) /\ Reply("not_implemented")
     \/ /\ KnownId(call.id)
        /\ Refused(call.declared, args)
        /\ Reply("invalid_value")
     \/ /\ KnownId(call.id)
        /\ ~Refused(call.declared, args)
        /\ \E f \in FunctionsOf(built.server) : f.id = call.id /\ served' = f.name
        /\ recv' = Received(call.declared, args, call.given)
        /\ pc' = "serve"
        /\ UNCHANGED status
  /\ UNCHANGED <<built, call, args, cells, locals, wrote>>

(* The implementation: it may fail at any point, and when it succeeds it    *)
(* has assigned every out parameter it was given an address for.            *)
Serve ==
  /\ pc = "serve"
  /\ \E W \in SUBSET {i \in DOMAIN recv : recv[i] \in {Cell(i), Local(i)}} :
       /\ wrote' = W
       /\ cells' = [i \in DOMAIN cells |->
                      IF i \in W /\ recv[i] = Cell(i) THEN "written" ELSE cells[i]]
       /\ locals' = [i \in DOMAIN locals |->
                       IF i \in W /\ recv[i] = Local(i) THEN "written" ELSE locals[i]]
       /\ \/ status' = "failed"
          \/ /\ \A i \in Outs(call.declared) : recv[i] \in {Cell(i), Local(i)} => i \in W
             /\ status' = "success"
  /\ pc' = "reply"
  /\ UNCHANGED <<built, call, args, recv, served>>

\* The out objects are copied whatever the status is.
ReturnCopiesAlways ==
  /\ pc = "reply"
  /\ cells' = [i \in DOMAIN cells |->
                 IF /\ i \in Outs(call.params) /\ ~Direct(call.params, i)
                    /\ call.given[i] # Null
                 THEN locals[i] ELSE cells[i]]
  /\ pc' = "returned"
  /\ UNCHANGED <<built, call, args, recv, served, locals, wrote, status>>

\* Out objects are copied only when there are several of them.
ReturnCopiesStructOnly ==
  /\ pc = "reply"
  /\ cells' = [i \in DOMAIN cells |->
                 IF /\ status = "success"
                    /\ i \in Outs(call.params) /\ Outs(call.params) # {i}
                    /\ call.given[i] # Null
                 THEN locals[i] ELSE cells[i]]
  /\ pc' = "returned"
  /\ UNCHANGED <<built, call, args, recv, served, locals, wrote, status>>

(* The rest of the wrapper: on success copy what the caller wants.          *)
Return ==
  /\ pc = "reply"
  /\ cells' = [i \in DOMAIN cells |->
                 IF /\ status = "success"
                    /\ i \in Outs(call.params) /\ ~Direct(call.params, i)
                    /\ call.given[i] # Null
                 THEN locals[i] ELSE cells[i]]
  /\ pc' = "returned"
  /\ UNCHANGED <<built, call, args, recv, served, locals, wrote, status>>

Done ==
  /\ pc = "returned"
  /\ pc' = "idle"
  /\ call' = NoCall /\ args' = <<>> /\ recv' = <<>> /\ served' = ""
  /\ cells' = <<>> /\ locals' = <<>> /\ wrote' = {} /\ status' = "none"
  /\ UNCHANGED built

Next == Call \/ Query \/ Send \/ Dispatch \/ Serve \/ Return \/ Done

Spec == Init /\ [][Next]_vars

(***************************************************************************)
(* Properties.                                                              *)
(***************************************************************************)
(* The sides agree on an id if the function was published before their      *)
(* histories parted, or if one history is a beginning of the other.         *)
Agreed ==
  LET past == CommonPast(built.client, built.server)
  IN past \in {built.client, built.server} \/ call.id < Span(past)

(* Types; no object but those of calls the sides disagree on holds garbage. *)
TypeOK ==
  /\ pc \in {"idle", "query", "send", "dispatch", "serve", "reply", "returned"}
  /\ call = NoCall \/ call.params \in Signatures[call.name]
  /\ DOMAIN call.given = DOMAIN call.params
  /\ args = <<>> \/ DOMAIN args = 1 .. Slots
  /\ recv = <<>> \/ DOMAIN recv = DOMAIN call.declared
  /\ \A i \in DOMAIN cells : cells[i] \in {"before", "written"} \/ (~Agreed /\ cells[i] = "unset")
  /\ wrote \subseteq DOMAIN call.declared

(* The implementation receives every in and inout argument as the caller    *)
(* passed it, and for every out parameter the address of the object the     *)
(* wrapper will copy from: the two generators agree on where each parameter *)
(* of each list travels.                                                    *)
ArgumentsArrive ==
  pc = "serve" /\ Agreed =>
    \A i \in DOMAIN call.params :
      recv[i] = IF i \in Outs(call.params) /\ ~Direct(call.params, i)
                THEN Local(i) ELSE call.given[i]

(* A null check of the dispatcher never turns away a call a wrapper made.   *)
NeverTurnedAway == Agreed => status # "invalid_value"

(* On success every out value the caller asked for has reached it; without  *)
(* it, nothing collected in the wrapper's own objects leaks out.            *)
OutsDelivered ==
  pc = "returned" /\ Agreed =>
    \A i \in Outs(call.params) :
      /\ status = "success" /\ call.given[i] # Null => cells[i] = "written"
      /\ status # "success" /\ ~Direct(call.params, i) => cells[i] = "before"

(* Whichever artifacts the two sides were generated from, the function      *)
(* entered has an implementation, and is the one that was called wherever   *)
(* the sides agree: the dispatcher tests vtable slot `id`, but calls the    *)
(* field by name.  Nothing a call carries tells apart the functions two     *)
(* extensions of one base gave the same id.                                 *)
RightFunction ==
  pc = "serve" => (Agreed => served = call.name) /\ served \in built.vtable

(* A call is refused as not implemented only if it is: the server's history *)
(* is too short, or its vtable has no such function.                        *)
RefusedOnlyIfMissing ==
  status = "not_implemented" /\ Agreed =>
    \/ \A f \in FunctionsOf(built.server) : f.name # call.name
    \/ call.name \notin built.vtable
=============================================================================
