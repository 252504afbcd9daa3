----------------------------- MODULE BsmpServer -----------------------------
(***************************************************************************)
(* The BSMP protocol server (bsmp/src/server.c, server_priv.c, bsmp.c) and *)
(* the callbacks the firmware gives it for its curves (bsmp_lib.c).        *)
(*                                                                         *)
(* A server is a record; every command of the protocol is an operator that *)
(* takes the server and the payload of the request and yields the server   *)
(* after the command with its answer.  The early returns of a handler are  *)
(* the IFs in their order.  Bytes are small numbers; a byte of data has    *)
(* one significant bit.  No hook, value checker or custom checksum is ever *)
(* registered by the firmware; they are left out.                          *)
(***************************************************************************)
EXTENDS Naturals, Sequences, FiniteSets, SequencesExt, TLC

CONSTANTS
    BSMP_MAX_VARIABLES,   \* 128
    BSMP_MAX_GROUPS,      \* 8
    Variables,            \* size and permission of the variables, in order
    Functions,            \* input_size and output_size of the functions
    NBlocks,              \* blocks of a curve (16)
    BlockSize             \* bytes of a block (1024)

ASSUME ServerAssumption ==
    /\ BSMP_MAX_VARIABLES \in Nat /\ BSMP_MAX_GROUPS \in Nat \ (0 .. 2)
    /\ Variables \in Seq([size : Nat, writable : BOOLEAN])
    /\ Functions \in Seq([input_size : Nat, output_size : Nat])
    /\ NBlocks \in Nat \ {0} /\ BlockSize \in Nat /\ BlockSize >= NBlocks

\* The firmware has 126 variables at most and none of size 0.  A list says the
\* size, or the number of variables, in seven bits, and a size of 128 as 0.
ASSUME ListAssumption ==
    Len(Variables) < 128 /\ \A k \in DOMAIN Variables : Variables[k].size > 0

BSMP_VAR_MAX_SIZE == 128
BSMP_CURVE_BLOCK_INFO == 3

GROUP_ALL_ID == 0
GROUP_READ_ID == 1
GROUP_WRITE_ID == 2
GROUP_STANDARD_COUNT == 3

\* Sizes share their byte with the permission (WRITABLE), or with each other.
SIZE_MASK(n) == n % 128
WRITABLE(w) == IF w THEN 128 ELSE 0
Nibbles(input, output) == (16 * input + (output % 16)) % 256

----------------------------------------------------------------------------
(* Entities.                                                               *)

group_init(id) == [id |-> id, writable |-> TRUE, size |-> 0, vars |-> <<>>]

\* Mutant: one writable variable makes the group writable.
group_add_var_either(g, id, var) ==
    [g EXCEPT !.vars = Append(@, id), !.size = @ + var.size,
              !.writable = @ \/ var.writable]

group_add_var(g, id, var) ==
    [g EXCEPT !.vars = Append(@, id), !.size = @ + var.size,
              !.writable = @ /\ var.writable]

\* A slot of the list that bsmp_server_init has only cleared.
NoGroup == [id |-> 0, writable |-> FALSE, size |-> 0, vars |-> <<>>]

Cleared == <<>>

\* Waveform k plays from its own buffer; curve 2 shows the samples.
Curve(k) == [writable |-> k < 2, start |-> k * NBlocks, checksum |-> Cleared]

Zeros(n) == [i \in 1 .. n |-> 0]

bsmp_server_init ==
    [vars |-> <<>>, data |-> <<>>,
     count |-> GROUP_STANDARD_COUNT,
     groups |-> [i \in 0 .. BSMP_MAX_GROUPS - 1 |->
                    IF i < GROUP_STANDARD_COUNT THEN group_init(i) ELSE NoGroup],
     curves |-> <<>>, funcs |-> <<>>]

var_check(var) == var.size <= BSMP_VAR_MAX_SIZE

bsmp_register_variable(s, var) ==
    IF ~var_check(var) \/ Len(s.vars) >= BSMP_MAX_VARIABLES THEN s
    ELSE LET id == Len(s.vars)
             own == IF var.writable THEN GROUP_WRITE_ID ELSE GROUP_READ_ID
         IN [s EXCEPT !.vars = Append(@, var), !.data = Append(@, Zeros(var.size)),
                      !.groups[GROUP_ALL_ID] = group_add_var(@, id, var),
                      !.groups[own] = group_add_var(@, id, var)]

\* bsmp_init: the functions, the variables one by one, and the three curves.
bsmp_init ==
    LET Register[n \in 0 .. Len(Variables)] ==
            IF n = 0 THEN bsmp_server_init
            ELSE bsmp_register_variable(Register[n - 1], Variables[n])
    IN [Register[Len(Variables)] EXCEPT
            !.funcs = Functions, !.curves = <<Curve(0), Curve(1), Curve(2)>>]

\* The memory of the curves: two waveforms and the samples, by block.
InitMemory == [b \in 0 .. 3 * NBlocks - 1 |-> Zeros(BlockSize)]

----------------------------------------------------------------------------
(* The world a command works on: the server, the memory of the curves, the *)
(* end of each waveform (bytes from its start), and what the C28 is doing: *)
(* the waveform the ARM has selected, whether the supply is in RmpWfm or   *)
(* MigWfm, and whether the scope buffer is in use.                         *)

Message(code, payload) == [code |-> code, size |-> Len(payload), payload |-> payload]

Send(w, s, code, payload) ==
    [world |-> [w EXCEPT !.srv = s], answer |-> Message(code, payload)]

Refuse(w, code) == Send(w, w.srv, code, <<>>)

query_version(w, p) ==
    IF p # <<>> THEN Refuse(w, "INVALID_PAYLOAD_SIZE")
    ELSE Send(w, w.srv, "VERSION", <<2, 20, 0>>)

var_query_list(w, p) ==
    IF p # <<>> THEN Refuse(w, "INVALID_PAYLOAD_SIZE")
    ELSE Send(w, w.srv, "VAR_LIST", [k \in DOMAIN w.srv.vars |->
            SIZE_MASK(w.srv.vars[k].size) + WRITABLE(w.srv.vars[k].writable)])

var_read(w, p) ==
    IF Len(p) # 1 THEN Refuse(w, "INVALID_PAYLOAD_SIZE")
    ELSE IF p[1] >= Len(w.srv.vars) THEN Refuse(w, "INVALID_ID")
    ELSE Send(w, w.srv, "VAR_VALUE", w.srv.data[p[1] + 1])

\* The part of a payload after its first n bytes.
Rest(p, n) == SubSeq(p, n + 1, Len(p))

SetVar(s, id, value) == [s EXCEPT !.data[id + 1] = value]

var_write(w, p) ==
    LET var == w.srv.vars[p[1] + 1]
    IN IF Len(p) < 2 THEN Refuse(w, "INVALID_PAYLOAD_SIZE")
       ELSE IF p[1] >= Len(w.srv.vars) THEN Refuse(w, "INVALID_ID")
       ELSE IF Len(p) # 1 + var.size THEN Refuse(w, "INVALID_PAYLOAD_SIZE")
       ELSE IF ~var.writable THEN Refuse(w, "READ_ONLY")
       ELSE Send(w, SetVar(w.srv, p[1], Rest(p, 1)), "OK", <<>>)

var_write_read(w, p) ==
    LET var_wr == w.srv.vars[p[1] + 1]
        after == SetVar(w.srv, p[1], Rest(p, 2))
    IN IF Len(p) < 3 THEN Refuse(w, "INVALID_PAYLOAD_SIZE")
       ELSE IF p[1] >= Len(w.srv.vars) \/ p[2] >= Len(w.srv.vars)
            THEN Refuse(w, "INVALID_ID")
       ELSE IF Len(p) # 2 + var_wr.size THEN Refuse(w, "INVALID_PAYLOAD_SIZE")
       ELSE IF ~var_wr.writable THEN Refuse(w, "READ_ONLY")
       ELSE Send(w, after, "VAR_VALUE", after.data[p[2] + 1])

\* The table of binary operations, on one bit: the letters A X O C S T.
BinOps == {65, 88, 79, 67, 83, 84}

bin_op(op, d, m) ==
    CASE op = 65 -> d * m
      [] op \in {88, 84} -> (d + m) % 2
      [] op \in {79, 83} -> IF d + m > 0 THEN 1 ELSE 0
      [] op = 67 -> d * (1 - m)

BinOp(op, data, mask) == [i \in DOMAIN data |-> bin_op(op, data[i], mask[i])]

var_bin_op(w, p) ==
    LET var == w.srv.vars[p[1] + 1]
    IN IF Len(p) < 3 THEN Refuse(w, "INVALID_PAYLOAD_SIZE")
       ELSE IF p[1] >= Len(w.srv.vars) THEN Refuse(w, "INVALID_ID")
       ELSE IF p[2] \notin BinOps THEN Refuse(w, "OP_NOT_SUPPORTED")
       ELSE IF Len(p) # 2 + var.size THEN Refuse(w, "INVALID_PAYLOAD_SIZE")
       ELSE IF ~var.writable THEN Refuse(w, "READ_ONLY")
       ELSE Send(w, SetVar(w.srv, p[1],
                           BinOp(p[2], w.srv.data[p[1] + 1], Rest(p, 2))), "OK", <<>>)

----------------------------------------------------------------------------
(* Groups.                                                                 *)

group_query_list(w, p) ==
    IF p # <<>> THEN Refuse(w, "INVALID_PAYLOAD_SIZE")
    ELSE Send(w, w.srv, "GROUP_LIST", [k \in 1 .. w.srv.count |->
            LET g == w.srv.groups[k - 1]
            IN (WRITABLE(g.writable) + Len(g.vars)) % 256])

group_query(w, p) ==
    IF Len(p) # 1 THEN Refuse(w, "INVALID_PAYLOAD_SIZE")
    ELSE IF p[1] >= w.srv.count THEN Refuse(w, "INVALID_ID")
    ELSE Send(w, w.srv, "GROUP", w.srv.groups[p[1]].vars)

Values(s, ids) == FlattenSeq([k \in DOMAIN ids |-> s.data[ids[k] + 1]])

group_read(w, p) ==
    IF Len(p) # 1 THEN Refuse(w, "INVALID_PAYLOAD_SIZE")
    ELSE IF p[1] >= w.srv.count THEN Refuse(w, "INVALID_ID")
    ELSE Send(w, w.srv, "GROUP_VALUES", Values(w.srv, w.srv.groups[p[1]].vars))

\* Not an operation of BinOps: the new value is what the payload says.
Assign == 0

\* The loop over the variables of a group, each with its part of the payload.
ForGroup(s, ids, bytes, op) ==
    LET Loop[k \in 0 .. Len(ids)] ==
            IF k = 0 THEN [srv |-> s, payloadp |-> 0]
            ELSE LET at == Loop[k - 1].payloadp
                     size == s.vars[ids[k] + 1].size
                     part == SubSeq(bytes, at + 1, at + size)
                     new == IF op = Assign THEN part
                            ELSE BinOp(op, s.data[ids[k] + 1], part)
                 IN [srv |-> SetVar(Loop[k - 1].srv, ids[k], new),
                     payloadp |-> at + size]
    IN Loop[Len(ids)].srv

group_write(w, p) ==
    LET grp == w.srv.groups[p[1]]
    IN IF Len(p) < 2 THEN Refuse(w, "INVALID_PAYLOAD_SIZE")
       ELSE IF p[1] >= w.srv.count THEN Refuse(w, "INVALID_ID")
       ELSE IF Len(p) # 1 + grp.size THEN Refuse(w, "INVALID_PAYLOAD_SIZE")
       ELSE IF ~grp.writable THEN Refuse(w, "READ_ONLY")
       ELSE Send(w, ForGroup(w.srv, grp.vars, Rest(p, 1), Assign), "OK", <<>>)

group_bin_op(w, p) ==
    LET grp == w.srv.groups[p[1]]
    IN IF Len(p) < 2 THEN Refuse(w, "INVALID_PAYLOAD_SIZE")
       ELSE IF p[1] >= w.srv.count THEN Refuse(w, "INVALID_ID")
       ELSE IF p[2] \notin BinOps THEN Refuse(w, "OP_NOT_SUPPORTED")
       ELSE IF Len(p) # 2 + grp.size THEN Refuse(w, "INVALID_PAYLOAD_SIZE")
       ELSE IF ~grp.writable THEN Refuse(w, "READ_ONLY")
       ELSE Send(w, ForGroup(w.srv, grp.vars, Rest(p, 2), p[2]), "OK", <<>>)

\* The slot is filled while the identifiers are checked: a refused request
\* leaves it half filled, behind the count.
Populate(s, grp, p) ==
    LET Loop[i \in 0 .. Len(p)] ==
            IF i = 0 THEN [grp |-> grp, ok |-> TRUE]
            ELSE IF \/ ~Loop[i - 1].ok \/ p[i] >= Len(s.vars)
                    \/ i > 1 /\ p[i] <= Loop[i - 1].grp.vars[i - 1]
                 THEN [Loop[i - 1] EXCEPT !.ok = FALSE]
                 ELSE [Loop[i - 1] EXCEPT
                         !.grp = group_add_var(@, p[i], s.vars[p[i] + 1])]
    IN Loop[Len(p)]

\* Mutant: the slot is not initialised before it is filled.
group_create_old_slot(w, p) ==
    LET s == w.srv
        old == [s.groups[s.count] EXCEPT !.id = s.count, !.vars = <<>>]
        made == Populate(s, old, p)
        filled == [s EXCEPT !.groups[s.count] = made.grp]
    IN IF Len(p) < 1 \/ Len(p) > Len(s.vars) THEN Refuse(w, "INVALID_PAYLOAD_SIZE")
       ELSE IF s.count = BSMP_MAX_GROUPS THEN Refuse(w, "INSUFFICIENT_MEMORY")
       ELSE IF ~made.ok THEN Send(w, filled, "INVALID_ID", <<>>)
       ELSE Send(w, [filled EXCEPT !.count = @ + 1], "OK", <<>>)

\* Mutant: the list is never full.
group_create_unbounded(w, p) ==
    LET s == w.srv
        made == Populate(s, group_init(s.count), p)
        filled == [s EXCEPT !.groups = @ @@ (s.count :> made.grp)]
    IN IF Len(p) < 1 \/ Len(p) > Len(s.vars) THEN Refuse(w, "INVALID_PAYLOAD_SIZE")
       ELSE IF ~made.ok THEN Send(w, filled, "INVALID_ID", <<>>)
       ELSE Send(w, [filled EXCEPT !.count = @ + 1], "OK", <<>>)

group_create(w, p) ==
    LET s == w.srv
        made == Populate(s, group_init(s.count), p)
        filled == [s EXCEPT !.groups[s.count] = made.grp]
    IN IF Len(p) < 1 \/ Len(p) > Len(s.vars) THEN Refuse(w, "INVALID_PAYLOAD_SIZE")
       ELSE IF s.count = BSMP_MAX_GROUPS THEN Refuse(w, "INSUFFICIENT_MEMORY")
       ELSE IF ~made.ok THEN Send(w, filled, "INVALID_ID", <<>>)
       ELSE Send(w, [filled EXCEPT !.count = @ + 1], "OK", <<>>)

group_remove_all(w, p) ==
    IF p # <<>> THEN Refuse(w, "INVALID_PAYLOAD_SIZE")
    ELSE Send(w, [w.srv EXCEPT !.count = GROUP_STANDARD_COUNT], "OK", <<>>)

----------------------------------------------------------------------------
(* Curves.  A block is addressed from the start of the curve's buffer.     *)

curve_query_list(w, p) ==
    IF p # <<>> THEN Refuse(w, "INVALID_PAYLOAD_SIZE")
    ELSE Send(w, w.srv, "CURVE_LIST", FlattenSeq([k \in DOMAIN w.srv.curves |->
            <<IF w.srv.curves[k].writable THEN 1 ELSE 0,
              BlockSize \div 256, BlockSize % 256, NBlocks \div 256, NBlocks % 256>>]))

curve_query_csum(w, p) ==
    IF Len(p) # 1 THEN Refuse(w, "INVALID_PAYLOAD_SIZE")
    ELSE IF p[1] >= Len(w.srv.curves) THEN Refuse(w, "INVALID_ID")
    ELSE Send(w, w.srv, "CURVE_CSUM", <<w.srv.curves[p[1] + 1].checksum>>)

\* read_block_wfmref always answers, with a whole block.
read_block_wfmref(w, id, block) == w.mem[w.srv.curves[id + 1].start + block]

\* The samples are not read while the C28 fills their buffer.
CanRead(w, id) == id < 2 \/ ~w.c28.scope

curve_block_request(w, p) ==
    LET block_offset == 256 * p[2] + p[3]
    IN IF Len(p) # BSMP_CURVE_BLOCK_INFO THEN Refuse(w, "INVALID_PAYLOAD_SIZE")
       ELSE IF p[1] >= Len(w.srv.curves) THEN Refuse(w, "INVALID_ID")
       ELSE IF block_offset >= NBlocks THEN Refuse(w, "INVALID_VALUE")
       ELSE IF ~CanRead(w, p[1]) THEN Refuse(w, "RESOURCE_BUSY")
       ELSE Send(w, w.srv, "CURVE_BLOCK",
                 p \o read_block_wfmref(w, p[1], block_offset))

\* The selected waveform is not written while the supply plays.
CanWrite(w, id) == ~(id = w.c28.selected /\ w.c28.playing)

\* The end of the waveform moves to the end of what was written last.
write_block_wfmref(w, id, block, bytes) ==
    LET at == w.srv.curves[id + 1].start + block
    IN [w EXCEPT
          !.mem[at] = [i \in DOMAIN @ |-> IF i <= Len(bytes) THEN bytes[i] ELSE @[i]],
          !.ends[id] = block * BlockSize + Len(bytes)]

\* Mutant: the checksum survives the write.
curve_block_keeps_csum(w, p) ==
    LET block_offset == 256 * p[2] + p[3]
        written == write_block_wfmref(w, p[1], block_offset, Rest(p, BSMP_CURVE_BLOCK_INFO))
    IN IF Len(p) < BSMP_CURVE_BLOCK_INFO + 1 \/ p[1] >= Len(w.srv.curves)
          \/ Len(p) > BlockSize + BSMP_CURVE_BLOCK_INFO \/ block_offset >= NBlocks
       THEN Refuse(w, "INVALID_VALUE")
       ELSE IF ~w.srv.curves[p[1] + 1].writable THEN Refuse(w, "READ_ONLY")
       ELSE IF ~CanWrite(w, p[1]) THEN Refuse(w, "RESOURCE_BUSY")
       ELSE Send(written, w.srv, "OK", <<>>)

curve_block(w, p) ==
    LET block_offset == 256 * p[2] + p[3]
        written == write_block_wfmref(w, p[1], block_offset, Rest(p, BSMP_CURVE_BLOCK_INFO))
    IN IF Len(p) < BSMP_CURVE_BLOCK_INFO + 1 THEN Refuse(w, "INVALID_PAYLOAD_SIZE")
       ELSE IF p[1] >= Len(w.srv.curves) THEN Refuse(w, "INVALID_ID")
       ELSE IF Len(p) > BlockSize + BSMP_CURVE_BLOCK_INFO
            THEN Refuse(w, "INVALID_PAYLOAD_SIZE")
       ELSE IF block_offset >= NBlocks THEN Refuse(w, "INVALID_VALUE")
       ELSE IF ~w.srv.curves[p[1] + 1].writable THEN Refuse(w, "READ_ONLY")
       ELSE IF ~CanWrite(w, p[1]) THEN Refuse(w, "RESOURCE_BUSY")
       ELSE Send(written, [w.srv EXCEPT !.curves[p[1] + 1].checksum = Cleared],
                 "OK", <<>>)

\* The content of a curve; its checksum stands for it.
Content(w, id) == [b \in 1 .. NBlocks |-> w.mem[w.srv.curves[id + 1].start + b - 1]]

\* A whole block is never shorter than the number of blocks: the early end of
\* the loop is not taken (ServerAssumption).
curve_recalc_csum(w, p) ==
    IF Len(p) # 1 THEN Refuse(w, "INVALID_PAYLOAD_SIZE")
    ELSE IF p[1] >= Len(w.srv.curves) THEN Refuse(w, "INVALID_ID")
    ELSE IF ~CanRead(w, p[1]) THEN Refuse(w, "RESOURCE_BUSY")
    ELSE Send(w, [w.srv EXCEPT !.curves[p[1] + 1].checksum = Content(w, p[1])],
              "CURVE_CSUM", <<Content(w, p[1])>>)

----------------------------------------------------------------------------
(* Functions.  `ret' is what the function returns.                         *)

func_query_list(w, p) ==
    IF p # <<>> THEN Refuse(w, "INVALID_PAYLOAD_SIZE")
    ELSE Send(w, w.srv, "FUNC_LIST", [k \in DOMAIN w.srv.funcs |->
            Nibbles(w.srv.funcs[k].input_size, w.srv.funcs[k].output_size)])

Runs(w, p) ==
    /\ p # <<>>
    /\ p[1] < Len(w.srv.funcs)
    /\ Len(p) = 1 + w.srv.funcs[p[1] + 1].input_size

func_execute(w, p, ret) ==
    IF p = <<>> THEN Refuse(w, "INVALID_PAYLOAD_SIZE")
    ELSE IF p[1] >= Len(w.srv.funcs) THEN Refuse(w, "INVALID_ID")
    ELSE IF ~Runs(w, p) THEN Refuse(w, "INVALID_PAYLOAD_SIZE")
    ELSE IF ret # 0 THEN Send(w, w.srv, "FUNC_ERROR", <<ret>>)
    ELSE Send(w, w.srv, "FUNC_RETURN", Zeros(w.srv.funcs[p[1] + 1].output_size))

----------------------------------------------------------------------------
(* bsmp_process_packet: a message whose header disagrees with its length   *)
(* is malformed; the command table has no other entries.                   *)

Commands == {"QUERY_VERSION", "VAR_QUERY_LIST", "VAR_READ", "VAR_WRITE",
    "VAR_BIN_OP", "VAR_WRITE_READ", "GROUP_QUERY_LIST", "GROUP_QUERY",
    "GROUP_READ", "GROUP_WRITE", "GROUP_BIN_OP", "GROUP_CREATE",
    "GROUP_REMOVE_ALL", "CURVE_QUERY_LIST", "CURVE_QUERY_CSUM",
    "CURVE_BLOCK_REQUEST", "CURVE_BLOCK", "CURVE_RECALC_CSUM",
    "FUNC_QUERY_LIST", "FUNC_EXECUTE"}

command(w, code, p, ret) ==
    CASE code = "QUERY_VERSION" -> query_version(w, p)
      [] code = "VAR_QUERY_LIST" -> var_query_list(w, p)
      [] code = "VAR_READ" -> var_read(w, p)
      [] code = "VAR_WRITE" -> var_write(w, p)
      [] code = "VAR_BIN_OP" -> var_bin_op(w, p)
      [] code = "VAR_WRITE_READ" -> var_write_read(w, p)
      [] code = "GROUP_QUERY_LIST" -> group_query_list(w, p)
      [] code = "GROUP_QUERY" -> group_query(w, p)
      [] code = "GROUP_READ" -> group_read(w, p)
      [] code = "GROUP_WRITE" -> group_write(w, p)
      [] code = "GROUP_BIN_OP" -> group_bin_op(w, p)
      [] code = "GROUP_CREATE" -> group_create(w, p)
      [] code = "GROUP_REMOVE_ALL" -> group_remove_all(w, p)
      [] code = "CURVE_QUERY_LIST" -> curve_query_list(w, p)
      [] code = "CURVE_QUERY_CSUM" -> curve_query_csum(w, p)
      [] code = "CURVE_BLOCK_REQUEST" -> curve_block_request(w, p)
      [] code = "CURVE_BLOCK" -> curve_block(w, p)
      [] code = "CURVE_RECALC_CSUM" -> curve_recalc_csum(w, p)
      [] code = "FUNC_QUERY_LIST" -> func_query_list(w, p)
      [] code = "FUNC_EXECUTE" -> func_execute(w, p, ret)

bsmp_process_packet(w, request, ret) ==
    IF Len(request.payload) # request.size THEN Refuse(w, "MALFORMED_MESSAGE")
    ELSE IF request.code \notin Commands THEN Refuse(w, "OP_NOT_SUPPORTED")
    ELSE command(w, request.code, request.payload, ret)
=============================================================================
