--------------------------- MODULE MCBsmpClient ---------------------------
(* Instances of BsmpClient for TLC.                                        *)
EXTENDS BsmpClient

\* A read-only variable between two writable ones of different sizes.
SomeVariables == <<[size |-> 2, writable |-> TRUE], [size |-> 1, writable |-> FALSE],
                   [size |-> 1, writable |-> TRUE]>>

\* The second function takes more bytes than a nibble can say.
SomeFunctions == <<[input_size |-> 1, output_size |-> 0],
                   [input_size |-> 16, output_size |-> 0]>>

C(op, id, arg, bytes) == [op |-> op, id |-> id, arg |-> arg, bytes |-> bytes]

SomeCalls == {
    C("read_var", 0, 0, <<>>), C("write_var", 0, 0, <<>>), C("write_var", 1, 0, <<>>),
    C("write_read_vars", 0, 2, <<1, 1>>), C("bin_op_var", 2, 5, <<>>),
    C("bin_op_var", 2, 6, <<>>),
    C("read_group", 0, 0, <<>>), C("read_group", 3, 0, <<>>),
    C("write_group", 2, 0, <<>>), C("write_group", 3, 0, <<1, 1>>),
    C("bin_op_group", 3, 2, <<>>),
    C("create_group", 0, 0, <<0, 2>>), C("create_group", 0, 0, <<1, 2>>),
    C("create_group", 0, 0, <<2, 1>>), C("create_group", 0, 0, <<>>),
    C("remove_all_groups", 0, 0, <<>>),
    C("request_curve_block", 0, 1, <<>>), C("request_curve_block", 2, NBlocks, <<>>),
    C("send_curve_block", 0, 1, <<1, 0>>), C("send_curve_block", 2, 0, <<1, 1>>),
    C("read_curve", 0, 0, <<>>), C("read_curve", 2, 0, <<>>),
    C("write_curve", 0, 0, <<0, 1, 1>>), C("write_curve", 1, 0, <<1>>),
    C("recalc_checksum", 0, 0, <<>>),
    C("func_execute", 0, 0, <<>>), C("func_execute", 1, 0, <<>>)}

\* Another master makes a group, removes the groups, cuts a message short and
\* sends an unknown command.
SomeOthers == {
    Message("GROUP_CREATE", <<2>>), Message("GROUP_REMOVE_ALL", <<>>),
    [code |-> "VAR_WRITE", size |-> 3, payload |-> <<0, 1>>],
    Message("OK", <<>>)}

ASSUME QuietAssumption == QuietOthers
=============================================================================
