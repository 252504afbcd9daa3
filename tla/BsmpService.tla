---------------------------- MODULE BsmpService -----------------------------
(***************************************************************************)
(* What the BSMP protocol promises to the caller of the client library:    *)
(* a call works on the entities of the server directly.  Its effects       *)
(* happen one after the other between the call and its return, each at     *)
(* most once; a call that returns success has had all of them, and gives   *)
(* back what was there when they happened.  A call that returns an error   *)
(* may have had any first part of them: the caller cannot know.            *)
(*                                                                         *)
(* BsmpClient.tla (client, link with faults, server) implements this.      *)
(***************************************************************************)
EXTENDS Naturals, Sequences, SequencesExt

CONSTANTS
    NumBlocks,      \* blocks of a curve
    BytesOfBlock,   \* bytes of a block
    OthersWrite,    \* whether other masters write data, and not only groups
    BitOp(_, _, _)  \* the binary operations, on sequences of bytes

VARIABLES
    state,      \* data of the variables, groups, memory and ends of the curves
    call,       \* the call in progress, or NoCall
    done,       \* how many of its effects have happened
    seen,       \* what they have shown
    ret         \* what the last call gave back, or NoReturn

NoCall == [op |-> "none"]
NoReturn == [result |-> "none", out |-> <<>>]

svcVars == <<state, call, done, seen, ret>>

\* The operations with one effect, and the ones with one effect per block.
Single == {"read_var", "write_var", "write_read_vars", "bin_op_var",
           "read_group", "write_group", "bin_op_group", "create_group",
           "remove_all_groups", "request_curve_block", "send_curve_block",
           "func_execute"}
Blocks == {"read_curve", "write_curve"}

NumEffects(c) == IF c.op \in Blocks THEN NumBlocks
                 ELSE IF c.op \in Single THEN 1 ELSE 0

ValuesOf(s, ids) == FlattenSeq([k \in DOMAIN ids |-> s.data[ids[k] + 1]])

\* From s to t only the variables of ids have changed; they now hold bytes.
Written(s, t, ids, bytes) ==
    /\ [t EXCEPT !.data = s.data] = s
    /\ \A v \in DOMAIN s.data : Len(t.data[v]) = Len(s.data[v])
    /\ \A v \in DOMAIN s.data : t.data[v] # s.data[v] => v - 1 \in Range(ids)
    /\ ValuesOf(t, ids) = bytes

Vars(s, c) == IF c.op \in {"write_group", "bin_op_group"}
              THEN s.groups[c.id + 1] ELSE <<c.id>>

\* From s to t a waveform has taken the bytes of one block, and ends there.
BlockTaken(s, t, id, block, bytes) ==
    LET at == id * NumBlocks + block
        old == s.mem[at]
    IN t = [s EXCEPT !.mem[at] = bytes \o SubSeq(old, Len(bytes) + 1, Len(old)),
                     !.ends[id] = block * BytesOfBlock + Len(bytes)]

BlockOf(bytes, k) ==
    SubSeq(bytes, k * BytesOfBlock + 1,
           IF (k + 1) * BytesOfBlock < Len(bytes) THEN (k + 1) * BytesOfBlock
           ELSE Len(bytes))

\* The k-th effect of call c takes the state from s to t.
Effect(s, t, c, k) ==
    CASE c.op \in {"write_var", "write_read_vars", "write_group"} ->
             Written(s, t, Vars(s, c), c.bytes)
      [] c.op \in {"bin_op_var", "bin_op_group"} ->
             Written(s, t, Vars(s, c), BitOp(c.arg, ValuesOf(s, Vars(s, c)), c.bytes))
      [] c.op = "create_group" -> t = [s EXCEPT !.groups = Append(@, c.bytes)]
      [] c.op = "remove_all_groups" -> t = [s EXCEPT !.groups = SubSeq(@, 1, 3)]
      [] c.op = "send_curve_block" -> BlockTaken(s, t, c.id, c.arg, c.bytes)
      [] c.op = "write_curve" -> BlockTaken(s, t, c.id, k - 1, BlockOf(c.bytes, k - 1))
      [] OTHER -> t = s

\* What the caller learns from it; t is the state after the effect.
Shown(t, c, k) ==
    CASE c.op = "read_var" -> t.data[c.id + 1]
      [] c.op = "write_read_vars" -> t.data[c.arg + 1]
      [] c.op = "read_group" -> ValuesOf(t, t.groups[c.id + 1])
      [] c.op = "request_curve_block" -> t.mem[c.id * NumBlocks + c.arg]
      [] c.op = "read_curve" -> t.mem[c.id * NumBlocks + k - 1]
      [] OTHER -> <<>>

----------------------------------------------------------------------------
Begin ==
    /\ call = NoCall
    /\ call' # NoCall
    /\ done' = 0 /\ seen' = <<>> /\ ret' = NoReturn
    /\ UNCHANGED state

Happen ==
    /\ done' = done + 1
    /\ call # NoCall
    /\ done < NumEffects(call)
    /\ Effect(state, state', call, done')
    /\ seen' = seen \o Shown(state', call, done')
    /\ UNCHANGED <<call, ret>>

\* An error may come at any time; success needs all the effects.
End ==
    /\ call # NoCall
    /\ call' = NoCall
    /\ ret' # NoReturn
    /\ ret'.result = "SUCCESS" => done = NumEffects(call) /\ ret'.out = seen
    /\ UNCHANGED <<state, done, seen>>

\* The server restarts, or another master makes or removes groups or writes.
Change ==
    /\ \/ \E ids \in {state'.groups[Len(state'.groups)]} :
              state' = [state EXCEPT !.groups = Append(@, ids)]
       \/ state' = [state EXCEPT !.groups = SubSeq(@, 1, 3)]
       \/ /\ state'.groups = SubSeq(state.groups, 1, 3)
          /\ state'.mem = state.mem
          /\ \A v \in DOMAIN state.data : Len(state'.data[v]) = Len(state.data[v])
       \/ /\ OthersWrite /\ state'.groups = state.groups
          /\ \A v \in DOMAIN state.data : Len(state'.data[v]) = Len(state.data[v])
          /\ \A b \in DOMAIN state.mem : Len(state'.mem[b]) = Len(state.mem[b])
    /\ UNCHANGED <<call, done, seen, ret>>

Service == [][Begin \/ Happen \/ End \/ Change]_svcVars
=============================================================================
