----------------------------- MODULE MCProtocol -----------------------------
(* A byte has two values, so that a u64 has 256: every width is filled,    *)
(* and every carry between two bytes happens.                              *)
EXTENDS Protocol

Value ==
    [u8 |-> <<0, 1>>, u16 |-> <<1, 2>>, u32 |-> <<6, 15>>, u64 |-> <<100, 255>>,
     string |-> << <<>>, <<0, 1>> >>, bool |-> <<FALSE, TRUE>>]

(* All the messages of a type that has these fields, with two values for   *)
(* each field but the count of a list.                                     *)
Filled(type, fields, count) ==
    {[type |-> type,
      value |-> [f \in fields |-> IF f[1] = "count" THEN count
                                  ELSE Value[Kinds[f[1]]][choice[f]]]] :
        choice \in [fields -> 1..2]}

FieldsOf(type, counted) ==
    {Field(serialize, type, k) : k \in 1..FieldCount(serialize, type, counted)}

Flat == UNION {Filled(type, FieldsOf(type, [f \in {} |-> 0]), 0) :
                 type \in DOMAIN serialize \ {"entry"}}
Lists == UNION {Filled(type, FieldsOf(type, [f \in {<<"count", 0>>} |-> count]), count) :
                  type \in ListTypes, count \in 0..2}

MCMessages == Flat \cup Lists
=============================================================================
