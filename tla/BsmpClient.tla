----------------------------- MODULE BsmpClient -----------------------------
(***************************************************************************)
(* The client library (bsmp/src/client.c) and a server (BsmpServer.tla) at *)
(* the two ends of a link that may lose a request or an answer.  A call of *)
(* the library is a sequence of exchanges; `call.stage' says which one it  *)
(* has to make next.  Meanwhile the server may restart, another master may *)
(* use it, and the C28 starts and stops waveforms and samples.             *)
(*                                                                         *)
(* An answer that comes after the client has given up is dropped by the    *)
(* link: messages carry no number, and the library takes whatever comes.   *)
(***************************************************************************)
EXTENDS BsmpServer

CONSTANTS
    Calls,          \* calls the user makes: op, id, arg and bytes
    Others,         \* requests another master may send
    MaxCalls,       \* calls after the first initialisation
    MaxFaults       \* losses, restarts and steps of others, in all

VARIABLES
    world,      \* the server, the memory of the curves and the C28
    cli,        \* lists the client has read from the server
    call,       \* the call in progress, or NoCall
    wire,       \* the answer on its way, or Nothing
    ret,        \* what the last call gave back, or NoReturn
    done,       \* history: requests of this call the server has accepted
    seen,       \* history: what it has answered to them
    stale,      \* history: the list of groups may differ from the server's
    calls, faults

vars == <<world, cli, call, wire, ret, done, seen, stale, calls, faults>>
history == <<done, seen>>

NoCall == [op |-> "none"]
NoReturn == [result |-> "none", out |-> <<>>]
Nothing == Message("NOTHING", <<>>)
Failed == Message("FAILED", <<>>)

----------------------------------------------------------------------------
(* Requests.  The table gives the command of an operation, the answer it   *)
(* expects and the list it reads again afterwards.                         *)

Op(code, answer, update) == [code |-> code, answer |-> answer, update |-> update]

Ops == [
    read_var            |-> Op("VAR_READ", {"VAR_VALUE"}, "none"),
    write_var           |-> Op("VAR_WRITE", {"OK"}, "none"),
    write_read_vars     |-> Op("VAR_WRITE_READ", {"VAR_VALUE"}, "none"),
    bin_op_var          |-> Op("VAR_BIN_OP", {"OK"}, "none"),
    read_group          |-> Op("GROUP_READ", {"GROUP_VALUES"}, "none"),
    write_group         |-> Op("GROUP_WRITE", {"OK"}, "none"),
    bin_op_group        |-> Op("GROUP_BIN_OP", {"OK"}, "none"),
    create_group        |-> Op("GROUP_CREATE", {"OK"}, "groups"),
    remove_all_groups   |-> Op("GROUP_REMOVE_ALL", {"OK"}, "groups"),
    request_curve_block |-> Op("CURVE_BLOCK_REQUEST", {"CURVE_BLOCK"}, "none"),
    read_curve          |-> Op("CURVE_BLOCK_REQUEST", {"CURVE_BLOCK"}, "none"),
    send_curve_block    |-> Op("CURVE_BLOCK", {"OK"}, "none"),
    write_curve         |-> Op("CURVE_BLOCK", {"OK"}, "none"),
    recalc_checksum     |-> Op("CURVE_RECALC_CSUM", {"OK"}, "curves"),
    func_execute        |-> Op("FUNC_EXECUTE", {"FUNC_RETURN", "FUNC_ERROR"}, "none")]

\* The bytes of a request before its data.
Header == [VAR_WRITE |-> 1, VAR_WRITE_READ |-> 2, VAR_BIN_OP |-> 2,
           GROUP_WRITE |-> 1, GROUP_BIN_OP |-> 2, CURVE_BLOCK |-> 3]

ASSUME ClientAssumption ==
    /\ Calls \subseteq [op : DOMAIN Ops, id : Nat, arg : Nat, bytes : Seq(Nat)]
    /\ \A c \in Calls : c.op # "create_group" => c.bytes \in Seq({0, 1})
    /\ \A c \in Calls : c.op = "read_curve" => c.bytes = <<>>
    /\ \A r \in Others :
          /\ r.payload \in Seq(Nat)
          /\ r.code \in DOMAIN Header =>
                \A k \in DOMAIN r.payload : k > Header[r.code] => r.payload[k] \in {0, 1}
    /\ MaxCalls \in Nat /\ MaxFaults \in Nat

\* Other masters make and remove groups, but write no data: a request of theirs
\* that would is cut short.  The service then lets nobody else write.
QuietOthers ==
    \A r \in Others : r.code \in DOMAIN Header => r.size # Len(r.payload)

\* enum bsmp_bin_op to its letter
bin_op_code == <<65, 79, 88, 83, 67, 84>>
BIN_OP_COUNT == Len(bin_op_code)

Has(list, id) == id < Len(list)

\* Mutant: the pointer into the buffer does not move.
BlockBytesFirst(bytes, block_size, blk) ==
    SubSeq(bytes, 1, IF block_size < Len(bytes) THEN block_size ELSE Len(bytes))

\* Block blk of the bytes a curve is written from; empty once they are used up.
BlockBytes(bytes, block_size, blk) ==
    LET from == blk * block_size
    IN SubSeq(bytes, from + 1,
              IF from + block_size < Len(bytes) THEN from + block_size ELSE Len(bytes))

\* What the user passes has the size the client's lists give.
Sized(c) ==
    LET n == CASE c.op \in {"write_var", "write_read_vars", "bin_op_var"} ->
                      IF Has(cli.vars, c.id) THEN cli.vars[c.id + 1].size ELSE 0
               [] c.op \in {"write_group", "bin_op_group"} ->
                      IF Has(cli.groups, c.id) THEN cli.groups[c.id + 1].size ELSE 0
               [] c.op = "func_execute" ->
                      IF Has(cli.funcs, c.id) THEN cli.funcs[c.id + 1].input_size ELSE 0
               [] OTHER -> Len(c.bytes)
    IN [c EXCEPT !.bytes = [i \in 1 .. n |-> IF i \in DOMAIN @ THEN @[i] ELSE i % 2]]

\* The checks of the parameters, in their order; "ok" lets the request go out.
WriteCheck(list, id) ==
    IF ~Has(list, id) \/ ~list[id + 1].writable THEN "PARAM_INVALID" ELSE "ok"

BlockCheck(c) ==
    IF ~Has(cli.curves, c.id) THEN "PARAM_INVALID"
    ELSE IF c.i > cli.curves[c.id + 1].nblocks THEN "PARAM_OUT_OF_RANGE" ELSE "ok"

OpCheck(list, c) ==
    IF WriteCheck(list, c.id) # "ok" THEN "PARAM_INVALID"
    ELSE IF c.arg >= BIN_OP_COUNT THEN "PARAM_OUT_OF_RANGE" ELSE "ok"

SendBlockCheck(c) ==
    IF WriteCheck(cli.curves, c.id) # "ok" THEN "PARAM_INVALID"
    ELSE IF BlockCheck(c) # "ok" THEN BlockCheck(c)
    ELSE IF c.op = "send_curve_block" /\ Len(c.bytes) > cli.curves[c.id + 1].block_size
         THEN "PARAM_OUT_OF_RANGE" ELSE "ok"

HasCheck(list, id) == IF Has(list, id) THEN "ok" ELSE "PARAM_INVALID"

Check(c) ==
    CASE c.op = "read_var" -> HasCheck(cli.vars, c.id)
      [] c.op = "write_var" -> WriteCheck(cli.vars, c.id)
      [] c.op = "write_read_vars" ->
             IF Has(cli.vars, c.arg) THEN WriteCheck(cli.vars, c.id) ELSE "PARAM_INVALID"
      [] c.op = "bin_op_var" -> OpCheck(cli.vars, c)
      [] c.op = "read_group" -> HasCheck(cli.groups, c.id)
      [] c.op = "write_group" -> WriteCheck(cli.groups, c.id)
      [] c.op = "bin_op_group" -> OpCheck(cli.groups, c)
      [] c.op = "create_group" ->
             IF c.bytes # <<>> /\ \A k \in DOMAIN c.bytes : Has(cli.vars, c.bytes[k])
             THEN "ok" ELSE "PARAM_INVALID"
      [] c.op \in {"request_curve_block", "read_curve"} -> BlockCheck(c)
      [] c.op \in {"send_curve_block", "write_curve"} -> SendBlockCheck(c)
      [] c.op = "recalc_checksum" -> HasCheck(cli.curves, c.id)
      [] c.op = "func_execute" -> HasCheck(cli.funcs, c.id)
      [] OTHER -> "ok"

BlockAddress(c) == <<c.id, c.i \div 256, c.i % 256>>

Payload(c) ==
    CASE c.op = "write_read_vars" -> <<c.id, c.arg>> \o c.bytes
      [] c.op \in {"bin_op_var", "bin_op_group"} ->
             <<c.id, bin_op_code[c.arg + 1]>> \o c.bytes
      [] c.op \in {"create_group", "remove_all_groups"} -> c.bytes
      [] c.op \in {"request_curve_block", "read_curve"} -> BlockAddress(c)
      [] c.op = "send_curve_block" -> BlockAddress(c) \o c.bytes
      [] c.op = "write_curve" ->
             BlockAddress(c) \o BlockBytes(c.bytes, cli.curves[c.id + 1].block_size, c.i)
      [] OTHER -> <<c.id>> \o c.bytes

\* The request of the stage the call is in.
Request(c) ==
    CASE c.stage = "version" -> Message("QUERY_VERSION", <<>>)
      [] c.stage = "vars" -> Message("VAR_QUERY_LIST", <<>>)
      [] c.stage = "groups" -> Message("GROUP_QUERY_LIST", <<>>)
      [] c.stage = "group" -> Message("GROUP_QUERY", <<c.i>>)
      [] c.stage = "curves" -> Message("CURVE_QUERY_LIST", <<>>)
      [] c.stage = "csum" -> Message("CURVE_QUERY_CSUM", <<c.i>>)
      [] c.stage = "funcs" -> Message("FUNC_QUERY_LIST", <<>>)
      [] c.stage = "op" -> Message(Ops[c.op].code, Payload(c))

----------------------------------------------------------------------------
(* The user, the link and the server.                                      *)

Call ==
    /\ call = NoCall /\ calls < MaxCalls
    /\ \E c \in Calls :
         LET sized == Sized(c)
         IN call' = [op |-> c.op, id |-> c.id, arg |-> c.arg, bytes |-> sized.bytes,
                     stage |-> "op",
                     i |-> IF c.op \in {"request_curve_block", "send_curve_block"}
                           THEN c.arg ELSE 0]
    /\ calls' = calls + 1
    /\ done' = 0 /\ seen' = <<>> /\ ret' = NoReturn
    /\ UNCHANGED <<world, cli, wire, stale, faults>>

\* bsmp_client_init clears the lists.
NoLists == [vars |-> <<>>, groups |-> <<>>, curves |-> <<>>, funcs |-> <<>>]

bsmp_client_init ==
    /\ call = NoCall /\ calls < MaxCalls
    /\ call' = [op |-> "client_init", id |-> 0, arg |-> 0, bytes |-> <<>>,
                stage |-> "version", i |-> 0]
    /\ cli' = NoLists /\ stale' = TRUE
    /\ calls' = calls + 1
    /\ done' = 0 /\ seen' = <<>> /\ ret' = NoReturn
    /\ UNCHANGED <<world, wire, faults>>

Return(result, out) ==
    /\ call' = NoCall
    /\ ret' = [result |-> result, out |-> out]

Sends == call # NoCall /\ wire = Nothing /\ (call.stage = "op" => Check(call) = "ok")

Reject ==
    /\ call # NoCall /\ wire = Nothing /\ call.stage = "op" /\ Check(call) # "ok"
    /\ Return(Check(call), <<>>)
    /\ UNCHANGED <<world, cli, wire, history, stale, calls, faults>>

\* The data an answer gives the caller.
Out(answer) ==
    CASE answer.code \in {"VAR_VALUE", "GROUP_VALUES"} -> answer.payload
      [] answer.code = "CURVE_BLOCK" -> Rest(answer.payload, BSMP_CURVE_BLOCK_INFO)
      [] OTHER -> <<>>

Process(ret_func) ==
    LET step == bsmp_process_packet(world, Request(call), ret_func)
        accepted == call.stage = "op" /\ step.answer.code \in Ops[call.op].answer
    IN /\ world' = step.world
       /\ done' = IF accepted THEN done + 1 ELSE done
       /\ seen' = IF accepted THEN seen \o Out(step.answer) ELSE seen

Deliver ==
    /\ Sends
    /\ \E ret_func \in (IF call.op = "func_execute" THEN {0, 1} ELSE {0}) :
          /\ Process(ret_func)
          /\ wire' = bsmp_process_packet(world, Request(call), ret_func).answer
    /\ stale' = (stale /\ call.stage # "groups")
    /\ UNCHANGED <<cli, call, ret, calls, faults>>

LoseRequest ==
    /\ Sends /\ faults < MaxFaults
    /\ wire' = Failed /\ faults' = faults + 1
    /\ UNCHANGED <<world, cli, call, ret, history, stale, calls>>

LoseAnswer ==
    /\ Sends /\ faults < MaxFaults
    /\ Process(0)
    /\ wire' = Failed /\ faults' = faults + 1
    /\ stale' = (stale \/ call.op \in {"create_group", "remove_all_groups"})
    /\ UNCHANGED <<cli, call, ret, calls>>

----------------------------------------------------------------------------
(* The client takes an answer.                                             *)

Got(stage) == call # NoCall /\ wire # Nothing /\ call.stage = stage /\ wire' = Nothing

GoTo(stage, i) == call' = [call EXCEPT !.stage = stage, !.i = i] /\ UNCHANGED ret

\* Only the initialisation gives the error of a list to its caller.
ListFails ==
    IF call.op = "client_init" THEN Return("ERR_COMM", <<>>) ELSE Return("SUCCESS", <<>>)

get_version ==
    /\ Got("version")
    /\ IF wire = Failed THEN Return("ERR_COMM", <<>>) ELSE GoTo("vars", 0)
    /\ UNCHANGED <<world, cli, history, stale, calls, faults>>

ReadSize(byte) == IF byte % 128 = 0 THEN BSMP_VAR_MAX_SIZE ELSE byte % 128

update_vars_list ==
    /\ Got("vars")
    /\ IF wire.code # "VAR_LIST" THEN Return("ERR_COMM", <<>>) /\ UNCHANGED cli
       ELSE /\ cli' = [cli EXCEPT !.vars = [k \in DOMAIN wire.payload |->
                  [writable |-> wire.payload[k] >= 128, size |-> ReadSize(wire.payload[k])]]]
            /\ GoTo("groups", 0)
    /\ UNCHANGED <<world, history, stale, calls, faults>>

\* The end of update_groups_list, for the initialisation or for another call.
GroupsRead == IF call.op = "client_init" THEN GoTo("curves", 0)
              ELSE Return("SUCCESS", <<>>)

\* An answer with no group leaves the loop at once.
update_groups_list ==
    /\ Got("groups")
    /\ IF wire.code # "GROUP_LIST"
       THEN ListFails /\ stale' = TRUE /\ UNCHANGED cli
       ELSE /\ cli' = [cli EXCEPT !.groups = [k \in DOMAIN wire.payload |->
                  [writable |-> wire.payload[k] >= 128, count |-> SIZE_MASK(wire.payload[k]),
                   size |-> 0, vars |-> <<>>]]]
            /\ UNCHANGED stale
            /\ IF wire.payload = <<>> THEN GroupsRead ELSE GoTo("group", 0)
    /\ UNCHANGED <<world, history, calls, faults>>

\* A slot of the list of variables that was not read has size 0.
SizesOf(list, ids) ==
    LET Sum[k \in 0 .. Len(ids)] ==
            IF k = 0 THEN 0
            ELSE Sum[k - 1] + (IF Has(list, ids[k]) THEN list[ids[k] + 1].size ELSE 0)
    IN Sum[Len(ids)]

\* Mutant: the list keeps the groups it has read before one fails.
QueryGroupKeeps ==
    /\ Got("group")
    /\ IF wire.code # "GROUP" THEN ListFails /\ UNCHANGED <<cli, stale>>
       ELSE /\ cli' = [cli EXCEPT !.groups[call.i + 1].vars = wire.payload,
                                  !.groups[call.i + 1].size = SizesOf(cli.vars, wire.payload)]
            /\ IF call.i + 1 < Len(cli.groups) THEN GoTo("group", call.i + 1) ELSE GroupsRead
            /\ UNCHANGED stale
    /\ UNCHANGED <<world, history, calls, faults>>

\* Mutant: a group that fails is asked for again.
QueryGroupAgain ==
    /\ Got("group")
    /\ IF wire.code # "GROUP" THEN UNCHANGED <<call, ret, cli, stale>>
       ELSE /\ cli' = [cli EXCEPT !.groups[call.i + 1].vars = wire.payload,
                                  !.groups[call.i + 1].size = SizesOf(cli.vars, wire.payload)]
            /\ IF call.i + 1 < Len(cli.groups) THEN GoTo("group", call.i + 1) ELSE GroupsRead
            /\ UNCHANGED stale
    /\ UNCHANGED <<world, history, calls, faults>>

\* The loop over the groups; when one fails the list is left empty.  The number
\* of variables comes from the first answer, the variables from this one.
QueryGroup ==
    /\ Got("group")
    /\ IF wire.code # "GROUP"
       THEN cli' = [cli EXCEPT !.groups = <<>>] /\ stale' = TRUE /\ ListFails
       ELSE /\ cli' = [cli EXCEPT !.groups[call.i + 1].vars = wire.payload,
                                  !.groups[call.i + 1].size = SizesOf(cli.vars, wire.payload)]
            /\ IF call.i + 1 < Len(cli.groups) THEN GoTo("group", call.i + 1) ELSE GroupsRead
            /\ UNCHANGED stale
    /\ UNCHANGED <<world, history, calls, faults>>

BSMP_CURVE_LIST_INFO == 5

BSMP_CURVE_MAX_BLOCKS == 65536

ReadBlocks(n) == IF n = 0 THEN BSMP_CURVE_MAX_BLOCKS ELSE n

ReadCurve(p, k) ==
    LET at(j) == p[BSMP_CURVE_LIST_INFO * (k - 1) + j]
    IN [writable |-> at(1) = 1, block_size |-> 256 * at(2) + at(3),
        nblocks |-> ReadBlocks(256 * at(4) + at(5)), checksum |-> Cleared]

CurvesRead == IF call.op = "client_init" THEN GoTo("funcs", 0)
              ELSE Return("SUCCESS", <<>>)

update_curves_list ==
    /\ Got("curves")
    /\ IF wire.code # "CURVE_LIST" THEN ListFails /\ UNCHANGED cli
       ELSE LET count == wire.size \div BSMP_CURVE_LIST_INFO
            IN /\ cli' = [cli EXCEPT !.curves =
                             [k \in 1 .. count |-> ReadCurve(wire.payload, k)]]
               /\ IF count = 0 THEN CurvesRead ELSE GoTo("csum", 0)
    /\ UNCHANGED <<world, history, stale, calls, faults>>

\* A checksum that does not come is left cleared.
QueryChecksum ==
    /\ Got("csum")
    /\ cli' = IF wire.code # "CURVE_CSUM" THEN cli
              ELSE [cli EXCEPT !.curves[call.i + 1].checksum = wire.payload[1]]
    /\ IF call.i + 1 < Len(cli.curves) THEN GoTo("csum", call.i + 1) ELSE CurvesRead
    /\ UNCHANGED <<world, history, stale, calls, faults>>

update_funcs_list ==
    /\ Got("funcs")
    /\ IF wire.code # "FUNC_LIST" THEN Return("ERR_COMM", <<>>) /\ UNCHANGED cli
       ELSE /\ cli' = [cli EXCEPT !.funcs = [k \in DOMAIN wire.payload |->
                  [input_size |-> wire.payload[k] \div 16,
                   output_size |-> wire.payload[k] % 16]]]
            /\ Return("SUCCESS", <<>>)
    /\ UNCHANGED <<world, history, stale, calls, faults>>

\* The answer to the operation itself.
Answered ==
    /\ Got("op") /\ call.op \notin {"read_curve", "write_curve"}
    /\ IF wire.code \notin Ops[call.op].answer THEN Return("ERR_COMM", <<>>)
       ELSE IF Ops[call.op].update # "none" THEN GoTo(Ops[call.op].update, 0)
       ELSE Return("SUCCESS", Out(wire))
    /\ UNCHANGED <<world, cli, history, stale, calls, faults>>

\* One turn of the loops of bsmp_read_curve and bsmp_write_curve.  What has
\* been read is kept in bytes; reading ends with a short block.
NextBlock ==
    LET c == [call EXCEPT !.bytes = IF call.op = "read_curve" THEN @ \o Out(wire) ELSE @]
        info == cli.curves[call.id + 1]
        ends == \/ call.i + 1 >= info.nblocks
                \/ call.op = "read_curve" /\ Len(Out(wire)) < info.block_size
        out == IF call.op = "read_curve" THEN c.bytes ELSE <<>>
    IN /\ Got("op") /\ call.op \in {"read_curve", "write_curve"}
       /\ IF wire.code \notin Ops[call.op].answer THEN Return("ERR_COMM", <<>>)
          ELSE IF ends THEN Return("SUCCESS", out)
          ELSE call' = [c EXCEPT !.i = @ + 1] /\ UNCHANGED ret
       /\ UNCHANGED <<world, cli, history, stale, calls, faults>>

----------------------------------------------------------------------------
(* What else happens to the server.                                        *)

FullEnds == [id \in 0 .. 1 |-> NBlocks * BlockSize]

\* The controller restarts between two requests.
Restart ==
    /\ faults < MaxFaults
    /\ world' = [world EXCEPT !.srv = bsmp_init, !.ends = FullEnds]
    /\ faults' = faults + 1 /\ stale' = TRUE
    /\ UNCHANGED <<cli, call, wire, ret, history, calls>>

\* Another master's request is served.
Other ==
    /\ faults < MaxFaults
    /\ \E request \in Others : world' = bsmp_process_packet(world, request, 0).world
    /\ faults' = faults + 1 /\ stale' = TRUE
    /\ UNCHANGED <<cli, call, wire, ret, history, calls>>

\* The C28 starts or stops a waveform, or the samples.
C28Moves ==
    /\ faults < MaxFaults
    /\ \E c28 \in [selected : {0, 1}, playing : BOOLEAN, scope : BOOLEAN] :
          c28 # world.c28 /\ world' = [world EXCEPT !.c28 = c28]
    /\ faults' = faults + 1
    /\ UNCHANGED <<cli, call, wire, ret, history, stale, calls>>

Init ==
    /\ world = [srv |-> bsmp_init, mem |-> InitMemory, ends |-> FullEnds,
                c28 |-> [selected |-> 0, playing |-> FALSE, scope |-> FALSE]]
    /\ cli = NoLists
    /\ call = [op |-> "client_init", id |-> 0, arg |-> 0, bytes |-> <<>>,
               stage |-> "version", i |-> 0]
    /\ wire = Nothing /\ ret = NoReturn
    /\ done = 0 /\ seen = <<>> /\ stale = TRUE
    /\ calls = 0 /\ faults = 0

ClientTakes ==
    \/ get_version \/ update_vars_list \/ update_groups_list \/ QueryGroup
    \/ update_curves_list \/ QueryChecksum \/ update_funcs_list
    \/ Answered \/ NextBlock

Progress == Reject \/ Deliver \/ LoseRequest \/ LoseAnswer \/ ClientTakes

Next ==
    \/ Call \/ bsmp_client_init \/ Progress
    \/ Restart \/ Other \/ C28Moves

\* Receiving gives an answer or gives up, and the library does not block.
Spec == Init /\ [][Next]_vars /\ WF_vars(Progress)

----------------------------------------------------------------------------
(* Properties.                                                             *)

Byte == 0 .. 255
Results == {"none", "SUCCESS", "ERR_COMM", "PARAM_INVALID", "PARAM_OUT_OF_RANGE"}

(* The type invariant.                                                     *)
TypeOK ==
    /\ world.srv.count \in GROUP_STANDARD_COUNT .. BSMP_MAX_GROUPS
    /\ \A k \in DOMAIN world.srv.vars :
          world.srv.data[k] \in [1 .. world.srv.vars[k].size -> {0, 1}]
    /\ world.mem \in [0 .. 3 * NBlocks - 1 -> [1 .. BlockSize -> {0, 1}]]
    /\ world.ends \in [0 .. 1 -> 0 .. NBlocks * BlockSize]
    /\ Len(cli.vars) <= BSMP_MAX_VARIABLES /\ Len(cli.groups) <= BSMP_MAX_GROUPS
    /\ ret.result \in Results
    /\ stale \in BOOLEAN /\ calls \in 0 .. MaxCalls /\ faults \in 0 .. MaxFaults

Visible == 0 .. world.srv.count - 1

(* Every group a master can address lists variables of the server, each    *)
(* once and in order, with their total size, and is writable only if all   *)
(* of them are.  A refused group_create leaves its slot half filled, and   *)
(* group_remove_all leaves all slots filled: the next group must not       *)
(* inherit what is there.                                                  *)
GroupsSound ==
    \A g \in Visible :
        LET grp == world.srv.groups[g]
            id(k) == grp.vars[k]
        IN /\ grp.id = g /\ grp.size = SizesOf(world.srv.vars, grp.vars)
           /\ \A k \in DOMAIN grp.vars : id(k) < Len(world.srv.vars)
           /\ \A k \in 2 .. Len(grp.vars) : id(k - 1) < id(k)
           /\ grp.writable <=> \A k \in DOMAIN grp.vars :
                                   world.srv.vars[id(k) + 1].writable

(* Between calls the client's list of groups is the server's, as long as   *)
(* nobody else has changed it and no exchange that reads or changes it was *)
(* lost: then writes to a group go to the variables the caller sees.  (An  *)
(* initialisation that failed may leave a client without variables.)       *)
ClientAgrees ==
    call = NoCall /\ ~stale /\ cli.vars # <<>> =>
        /\ Len(cli.groups) = world.srv.count
        /\ \A g \in Visible :
              LET mine == cli.groups[g + 1]
                  grp == world.srv.groups[g]
              IN mine = [writable |-> grp.writable, count |-> Len(grp.vars),
                         size |-> grp.size, vars |-> grp.vars]

(* The checksum of a waveform is that of its content, or cleared: a block  *)
(* written after the checksum was computed takes it away.  (The checksum   *)
(* of the samples is not tied to them: the C28 writes them.)               *)
ChecksumHonest ==
    \A id \in 0 .. 1 :
        world.srv.curves[id + 1].checksum \in {Cleared, Content(world, id)}

(* No request changes a read-only variable, whatever groups were made      *)
(* before: only a restart does.                                            *)
ReadOnlyKept ==
    [][\A k \in DOMAIN world.srv.vars :
          ~world.srv.vars[k].writable =>
              \/ world'.srv.data[k] = world.srv.data[k]
              \/ world'.srv = bsmp_init]_world

(* Every call of the library returns, lost messages and restarts included: *)
(* the loops over groups, curves and blocks end.                           *)
CallsReturn == call # NoCall ~> call = NoCall

----------------------------------------------------------------------------
(* The refinement mapping.                                                 *)

\* The call without what only the library knows of it.
Plain(c) == IF c = NoCall THEN c
            ELSE [op |-> c.op, id |-> c.id, arg |-> c.arg,
                  bytes |-> IF c.op = "read_curve" THEN <<>> ELSE c.bytes]

Entities ==
    [data |-> world.srv.data,
     groups |-> [g \in 1 .. world.srv.count |-> world.srv.groups[g - 1].vars],
     mem |-> world.mem, ends |-> world.ends]

Bits(op, data, mask) == BinOp(bin_op_code[op + 1], data, mask)

S == INSTANCE BsmpService WITH
        NumBlocks <- NBlocks, BytesOfBlock <- BlockSize, BitOp <- Bits,
        OthersWrite <- ~QuietOthers,
        state <- Entities, call <- Plain(call)

(* The library, the link and the server together give the service of       *)
(* BsmpService: success means that every effect has happened, exactly once *)
(* and in order, on what the identifiers name, and what the caller gets is *)
(* what was there.                                                         *)
Refines == S!Service
=============================================================================
