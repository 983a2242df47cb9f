------------------------------- MODULE Config -------------------------------
(***************************************************************************)
(* src/src/common/config.cpp: what the two programs make of a file of      *)
(* `key: value' lines.                                                     *)
(*                                                                         *)
(* Of the keys a required text, a port, a count and the flag are kept:     *)
(* "text" stands for client_id, directory and server_host, or              *)
(* storage_root; "count" is max_connections or io_threads; "flag" is       *)
(* dma_enabled.  listen_host takes any text and is left out.  A value is a *)
(* number with its sign, whatever follows it, or no number; the widths are *)
(* scaled down.                                                            *)
(***************************************************************************)
EXTENDS Integers, Sequences

CONSTANTS ULongMax, UintMax, PortMax,  \* of unsigned long, uint32_t and uint16_t
          Connections,                 \* the 32 of load_client_config
          Files                        \* the contents there are

ASSUME WidthsAssumption ==
    /\ ULongMax \in Nat /\ UintMax \in 0..ULongMax /\ PortMax \in 0..UintMax
    /\ Connections \in 1..UintMax

Keys == {"text", "port", "count", "flag"}
Value == [sort : {"plus", "minus", "word", "true", "empty"}, n : Nat]
Line == [key : Keys \cup {"none"}, value : Value]

ASSUME FilesAssumption == \A content \in Files : content \in Seq(Line)

VARIABLES
    kind,     \* "client" or "server"
    file,     \* the lines; a line without a key is blank, a comment or lacks the colon
    next,     \* the line std::getline takes next
    values,   \* of parse_key_values
    outcome,  \* "parsing", "loaded" or "refused", by an exception
    config

vars == <<kind, file, next, values, outcome, config>>

absent == [sort |-> "absent", n |-> 0]

Init ==
    /\ kind \in {"client", "server"}
    /\ file \in Files
    /\ next = 1
    /\ values = [key \in Keys |-> absent]
    /\ outcome = "parsing"
    /\ config = [port |-> 0, count |-> 1, flag |-> FALSE]

(* One line; emplace() keeps the value that is there.                      *)
parse_key_values ==
    /\ outcome = "parsing" /\ next <= Len(file)
    /\ LET line == file[next]
       IN values' = IF line.key \in Keys /\ values[line.key] = absent
                    THEN [values EXCEPT ![line.key] = line.value] ELSE values
    /\ next' = next + 1
    /\ UNCHANGED <<kind, file, outcome, config>>

(* require_value.                                                          *)
Given(key) == values[key].sort \notin {"absent", "empty"}

(* std::stoul takes a sign, and negates modulo the width of its result.    *)
IsNumber(value) == value.sort \in {"plus", "minus"} /\ value.n <= ULongMax
stoul(value) ==
    IF value.sort = "minus" THEN (ULongMax + 1 - value.n) % (ULongMax + 1) ELSE value.n

parse_port(value) == stoul(value) % (PortMax + 1)
parse_uint(value) == stoul(value) % (UintMax + 1)

(* Slip: the cast comes first.                                             *)
CountFits_cast(value) == IsNumber(value) /\ parse_uint(value) <= UintMax

PortFits(value) == IsNumber(value) /\ stoul(value) <= PortMax
CountFits(value) == IsNumber(value) /\ stoul(value) <= UintMax

InRange(count) == count >= 1 /\ (kind = "client" => count <= Connections)

(* load_client_config and load_server_config: the second has a default for *)
(* the count; an empty value there is not the default.                     *)
Count ==
    IF kind = "server" /\ values["count"] = absent THEN config.count
    ELSE parse_uint(values["count"])

Acceptable ==
    /\ Given("text")
    /\ Given("port") /\ PortFits(values["port"])
    /\ \/ kind = "server" /\ values["count"] = absent
       \/ (kind = "client" => Given("count")) /\ CountFits(values["count"])
    /\ InRange(Count)

load_config ==
    /\ outcome = "parsing" /\ next > Len(file)
    /\ IF Acceptable
       THEN /\ outcome' = "loaded"
            /\ config' = [port |-> parse_port(values["port"]),
                          count |-> Count,
                          flag |-> kind = "client" /\ values["flag"].sort = "true"]
       ELSE outcome' = "refused" /\ UNCHANGED config
    /\ UNCHANGED <<kind, file, next, values>>

Next == parse_key_values \/ load_config

Spec == Init /\ [][Next]_vars

-----------------------------------------------------------------------------
(* The first line of a key.                                                *)
Written(key) ==
    LET lines == {i \in DOMAIN file : file[i].key = key}
    IN IF lines = {} THEN absent
       ELSE file[CHOOSE i \in lines : \A j \in lines : i <= j].value

(* The number in the first line of its key: a minus sign is noticed but for *)
(* magnitudes so close to the width of unsigned long that stoul wraps them *)
(* into the range.                                                         *)
AsWritten(value, limit, loaded) ==
    \/ value.sort = "plus" /\ value.n = loaded
    \/ value.sort = "minus" /\ (value.n = 0 \/ value.n > ULongMax - limit)
NumbersAsWritten ==
    /\ AsWritten(Written("port"), PortMax, config.port)
    /\ \/ AsWritten(Written("count"), UintMax, config.count)
       \/ kind = "server" /\ Written("count") = absent /\ config.count = 1

(* What the rest of the program takes for granted: module UploadManager a  *)
(* limit of at least one, module MyDrive a server thread.                  *)
InRanges ==
    /\ config.port \in 0..PortMax /\ config.flag \in BOOLEAN
    /\ config.count \in 1..(IF kind = "client" THEN Connections ELSE UintMax)

(* A file that ought to be accepted: what is required is there, and the    *)
(* numbers are in their ranges (README.md:8), both ends of 1..32 included. *)
Valid ==
    /\ Written("text").sort \notin {"absent", "empty"}
    /\ Written("port").sort = "plus" /\ Written("port").n <= PortMax
    /\ \/ /\ Written("count").sort = "plus"
          /\ Written("count").n \in 1..(IF kind = "client" THEN Connections ELSE UintMax)
       \/ kind = "server" /\ Written("count") = absent

(* A configuration that is loaded has the numbers of the file, none cut to *)
(* the width of its type and none out of its range; and no valid file is   *)
(* refused, whatever else it contains.                                     *)
LoadsWhatIsWritten ==
    /\ outcome = "loaded" => NumbersAsWritten /\ InRanges
    /\ outcome = "refused" => ~Valid
=============================================================================
