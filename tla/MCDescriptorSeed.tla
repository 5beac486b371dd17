-------------------------- MODULE MCDescriptorSeed --------------------------
(* One-byte words: a row of two i64 fields, two bytes each, in a frame one *)
(* byte wider on either side, so that stores straddle the row's edges and  *)
(* its fields.  The values: the i32 0 and the negative i32 1, an i64 and a *)
(* payload held abstract.                                                  *)
EXTENDS DescriptorSeed, TLC
MCAddr == -1 .. 4
MCToken == {"payload"}
MCCallerVal ==
    {[kind |-> "i32", bytes |-> (0 :> 0)],
     [kind |-> "i32", bytes |-> (0 :> 1)],
     [kind |-> "i64", bytes |-> (0 :> 1 @@ 1 :> 0)],
     [kind |-> "sym", tok |-> "payload"]}
=============================================================================
