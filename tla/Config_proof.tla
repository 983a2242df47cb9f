---------------------------- MODULE Config_proof ----------------------------
(***************************************************************************)
(* LoadsWhatIsWritten, for every width of the three types and all files.   *)
(* The inductive invariant follows parse_key_values: the value of a key is *)
(* that of its first line among the lines read.                            *)
(***************************************************************************)
EXTENDS Config, TLAPS

First(key, i) ==
    /\ file[i].key = key
    /\ \A j \in 1..(i - 1) : file[j].key # key

Found(key) ==
    \/ values[key] = absent /\ \A i \in 1..(next - 1) : file[i].key # key
    \/ \E i \in 1..(next - 1) : First(key, i) /\ values[key] = file[i].value

Parsed ==
    /\ kind \in {"client", "server"}
    /\ file \in Seq(Line) /\ next \in 1..(Len(file) + 1)
    /\ values = [key \in Keys |-> values[key]]
    /\ \A key \in Keys : Found(key)
    /\ outcome \in {"parsing", "loaded", "refused"}
    /\ outcome = "parsing" => config = [port |-> 0, count |-> 1, flag |-> FALSE]

IInv == Parsed /\ LoadsWhatIsWritten

-----------------------------------------------------------------------------
(* A number that fits is left as it is by the cast.                        *)
LEMMA Fits ==
    ASSUME NEW a \in Nat, NEW m \in Nat, a <= m
    PROVE  a % (m + 1) = a
OBVIOUS

(* What passes the check is the number of the text, or the negation of one *)
(* so large that it wraps into the range.                                  *)
LEMMA Stoul ==
    ASSUME NEW value \in Value, NEW limit \in 0..ULongMax,
           IsNumber(value), stoul(value) <= limit
    PROVE  /\ stoul(value) \in 0..limit
           /\ stoul(value) % (limit + 1) = stoul(value)
           /\ AsWritten(value, limit, stoul(value))
<1>1. ULongMax \in Nat /\ limit \in Nat /\ value.n \in 0..ULongMax
  BY WidthsAssumption DEF Value, IsNumber
<1>2. stoul(value) \in Nat
  <2>1. CASE value.sort = "minus"
    BY <1>1, <2>1 DEF stoul
  <2>2. CASE value.sort # "minus"
    BY <1>1, <2>2 DEF stoul
  <2> QED
    BY <2>1, <2>2
<1>3. stoul(value) % (limit + 1) = stoul(value)
  BY <1>1, <1>2, Fits
<1>4. CASE value.sort = "plus"
  BY <1>1, <1>2, <1>3, <1>4 DEF AsWritten, stoul
<1>5. CASE value.sort = "minus"
  <2>1. CASE value.n = 0
    BY <1>2, <1>3, <1>5, <2>1 DEF AsWritten
  <2>2. CASE value.n # 0
    <3>1. ULongMax + 1 - value.n \in Nat /\ ULongMax + 1 - value.n <= ULongMax
      BY <1>1, <2>2
    <3>2. stoul(value) = ULongMax + 1 - value.n
      BY <1>1, <1>5, <3>1, Fits DEF stoul
    <3>3. value.n > ULongMax - limit
      BY <1>1, <3>2
    <3> QED
      BY <1>2, <1>3, <1>5, <3>3 DEF AsWritten
  <2> QED
    BY <2>1, <2>2
<1> QED
  BY <1>4, <1>5 DEF IsNumber

(* The other way round: a number in the range passes.                      *)
LEMMA Passes ==
    ASSUME NEW value \in Value, NEW limit \in 0..ULongMax,
           value.sort = "plus", value.n <= limit
    PROVE  IsNumber(value) /\ stoul(value) = value.n
<1>1. ULongMax \in Nat /\ value.n \in Nat
  BY WidthsAssumption DEF Value
<1> QED
  BY <1>1 DEF IsNumber, stoul

(* At the end of the file the value of a key is that of its first line.    *)
LEMMA ValueIsWritten ==
    ASSUME Parsed, next > Len(file), NEW key \in Keys
    PROVE  /\ values[key] = Written(key)
           /\ values[key] \in Value \cup {absent}
<1> DEFINE lines == {i \in DOMAIN file : file[i].key = key}
<1>1. DOMAIN file = 1..(next - 1) /\ next \in Nat
  BY DEF Parsed
<1>2. CASE values[key] = absent /\ \A i \in 1..(next - 1) : file[i].key # key
  <2>1. lines = {}
    BY <1>1, <1>2
  <2> QED
    BY <1>2, <2>1 DEF Written
<1>3. CASE \E i \in 1..(next - 1) : First(key, i) /\ values[key] = file[i].value
  <2>1. PICK i \in 1..(next - 1) : First(key, i) /\ values[key] = file[i].value
    BY <1>3
  <2>2. i \in lines /\ \A j \in lines : i <= j
    BY <1>1, <2>1 DEF First
  <2>3. \A k \in lines : (\A j \in lines : k <= j) => k = i
    BY <1>1, <2>2
  <2> DEFINE first == CHOOSE k \in lines : \A j \in lines : k <= j
  <2>4. first = i
    BY <2>2, <2>3
  <2>5. Written(key) = file[first].value
    BY <2>2 DEF Written
  <2>6. file[i] \in Line
    BY <1>1 DEF Parsed
  <2>7. file[i].value \in Value
    BY <2>6 DEF Line
  <2> QED
    BY <2>1, <2>4, <2>5, <2>7
<1> QED
  BY <1>2, <1>3 DEF Parsed, Found

-----------------------------------------------------------------------------
LEMMA InitInv == Init => IInv
<1> SUFFICES ASSUME Init PROVE IInv
  OBVIOUS
<1>1. file \in Seq(Line)
  BY FilesAssumption DEF Init
<1>2. \A key \in Keys : Found(key)
  BY DEF Init, Found
<1>3. next \in 1..(Len(file) + 1)
  BY <1>1 DEF Init
<1> QED
  BY <1>1, <1>2, <1>3 DEF Init, IInv, Parsed, LoadsWhatIsWritten

(* A line changes the value of its key only if it is the first one.        *)
LEMMA LineInv ==
    ASSUME IInv, parse_key_values
    PROVE  IInv'
<1>1. /\ next \in 1..Len(file) /\ next' = next + 1 /\ file[next] \in Line
      /\ outcome = "parsing" /\ outcome' = outcome
      /\ file' = file /\ kind' = kind /\ config' = config
  BY DEF IInv, Parsed, parse_key_values
<1>2. ASSUME NEW key \in Keys
      PROVE  Found(key)'
  <2> DEFINE line == file[next]
  <2>1. CASE line.key = key /\ values[key] = absent
    <3>1. values'[key] = line.value
      BY <2>1 DEF IInv, Parsed, parse_key_values
    <3>2. \A i \in 1..(next - 1) : file[i].value # absent
      <4> SUFFICES ASSUME NEW i \in 1..(next - 1) PROVE file[i].value # absent
        OBVIOUS
      <4>1. file[i] \in Line
        BY <1>1 DEF IInv, Parsed
      <4> QED
        BY <4>1 DEF Line, Value, absent
    <3>3. \A i \in 1..(next - 1) : file[i].key # key
      BY <1>2, <2>1, <3>2 DEF IInv, Parsed, Found
    <3>4. First(key, next)
      BY <2>1, <3>3 DEF First
    <3> QED
      BY <1>1, <3>1, <3>4 DEF Found, First
  <2>2. CASE ~(line.key = key /\ values[key] = absent)
    <3>1. values'[key] = values[key]
      BY <2>2 DEF IInv, Parsed, parse_key_values
    <3>2. CASE \E i \in 1..(next - 1) : First(key, i) /\ values[key] = file[i].value
      BY <1>1, <3>1, <3>2 DEF Found, First
    <3>3. CASE values[key] = absent /\ \A i \in 1..(next - 1) : file[i].key # key
      BY <1>1, <2>2, <3>1, <3>3 DEF Found
    <3> QED
      BY <1>2, <3>2, <3>3 DEF IInv, Parsed, Found
  <2> QED
    BY <2>1, <2>2
<1>3. values' = [key \in Keys |-> values'[key]]
  BY DEF IInv, Parsed, parse_key_values
<1>4. LoadsWhatIsWritten'
  BY <1>1 DEF LoadsWhatIsWritten
<1> QED
  BY <1>1, <1>2, <1>3, <1>4 DEF IInv, Parsed

LEMMA LoadInv ==
    ASSUME IInv, load_config
    PROVE  IInv'
<1>1. /\ UNCHANGED <<kind, file, next, values>> /\ outcome = "parsing"
      /\ Parsed /\ next > Len(file)
      /\ config.count = 1
  BY DEF IInv, Parsed, load_config
<1>2. Parsed'
  <2>1. outcome' \in {"loaded", "refused"}
    BY DEF load_config
  <2>2. \A key \in Keys : Found(key)'
    BY <1>1 DEF Parsed, Found, First
  <2> QED
    BY <1>1, <2>1, <2>2 DEF Parsed
<1>3. \A key \in Keys : /\ values[key] = Written(key) /\ Written(key)' = Written(key)
                        /\ values[key] \in Value \cup {absent}
  <2>1. \A key \in Keys : Written(key)' = Written(key)
    BY <1>1 DEF Written
  <2> QED
    BY <1>1, <2>1, ValueIsWritten
<1> DEFINE port == values["port"]
           count == values["count"]
<1>4. /\ "port" \in Keys /\ "count" \in Keys /\ "text" \in Keys
      /\ PortMax \in 0..ULongMax /\ UintMax \in 0..ULongMax
      /\ PortMax \in Nat /\ UintMax \in Nat /\ Connections \in 1..UintMax
  BY WidthsAssumption DEF Keys
<1>5. port \in Value \cup {absent} /\ count \in Value \cup {absent}
  BY <1>3, <1>4
<1>6. \A value : IsNumber(value) => value # absent
  BY DEF IsNumber, absent
<1>7. ASSUME Acceptable, outcome' = "loaded"
      PROVE  NumbersAsWritten' /\ InRanges'
  <2>1. /\ config'.port = parse_port(port) /\ config'.count = Count
        /\ config'.flag \in BOOLEAN
    <3>1. config' = [port |-> parse_port(port), count |-> Count,
                     flag |-> kind = "client" /\ values["flag"].sort = "true"]
      BY <1>7 DEF load_config
    <3> QED
      BY <3>1
  <2>2. port \in Value /\ IsNumber(port) /\ stoul(port) <= PortMax
    BY <1>5, <1>6, <1>7 DEF Acceptable, PortFits
  <2>3. config'.port \in 0..PortMax /\ AsWritten(port, PortMax, config'.port)
    BY <1>4, <2>1, <2>2, Stoul DEF parse_port
  <2>4. InRange(Count)
    BY <1>7 DEF Acceptable
  <2>5. /\ config'.count \in 1..UintMax
        /\ \/ AsWritten(count, UintMax, config'.count)
           \/ kind = "server" /\ count = absent /\ config'.count = 1
    <3>1. CASE kind = "server" /\ count = absent
      BY <1>1, <1>4, <2>1, <3>1 DEF Count
    <3>2. CASE ~(kind = "server" /\ count = absent)
      <4>1. count \in Value /\ IsNumber(count) /\ stoul(count) <= UintMax
        BY <1>5, <1>6, <1>7, <3>2 DEF Acceptable, CountFits
      <4>2. Count = stoul(count) % (UintMax + 1)
        BY <3>2 DEF Count, parse_uint
      <4>3. /\ stoul(count) \in 0..UintMax /\ Count = stoul(count)
            /\ AsWritten(count, UintMax, Count)
        BY <1>4, <4>1, <4>2, Stoul
      <4> QED
        BY <2>1, <2>4, <4>3 DEF InRange
    <3> QED
      BY <3>1, <3>2
  <2>6. kind = "client" => config'.count <= Connections
    BY <2>1, <2>4 DEF InRange
  <2>7. InRanges'
    BY <1>1, <1>4, <2>1, <2>3, <2>5, <2>6 DEF InRanges
  <2>8. NumbersAsWritten'
    BY <1>1, <1>3, <1>4, <2>3, <2>5 DEF NumbersAsWritten, AsWritten
  <2> QED
    BY <2>7, <2>8
<1>8. ASSUME Valid' PROVE Acceptable
  <2>1. /\ values["text"].sort \notin {"absent", "empty"}
        /\ port.sort = "plus" /\ port.n <= PortMax
        /\ \/ /\ count.sort = "plus"
              /\ count.n \in 1..(IF kind = "client" THEN Connections ELSE UintMax)
           \/ kind = "server" /\ count = absent
    BY <1>1, <1>3, <1>4, <1>8 DEF Valid
  <2>2. Given("text") /\ Given("port")
    BY <2>1 DEF Given
  <2>3. port \in Value /\ PortFits(port)
    <3>1. port \in Value
      BY <1>5, <2>1 DEF absent
    <3> QED
      BY <1>4, <2>1, <3>1, Passes DEF PortFits
  <2>4. CASE kind = "server" /\ count = absent
    BY <1>1, <2>2, <2>3, <2>4 DEF Acceptable, InRange, Count
  <2>5. CASE count.sort = "plus"
               /\ count.n \in 1..(IF kind = "client" THEN Connections ELSE UintMax)
    <3>1. count \in Value /\ count # absent
      BY <1>5, <2>5 DEF absent
    <3>2. count.n \in 1..UintMax /\ (kind = "client" => count.n <= Connections)
      BY <1>4, <2>5
    <3>3. IsNumber(count) /\ stoul(count) = count.n
      BY <1>4, <2>5, <3>1, <3>2, Passes
    <3>4. CountFits(count) /\ Given("count")
      BY <2>5, <3>2, <3>3 DEF CountFits, Given
    <3>5. Count = count.n
      <4>1. count.n % (UintMax + 1) = count.n
        BY <1>4, <3>2, Fits
      <4> QED
        BY <3>1, <3>3, <4>1 DEF Count, parse_uint
    <3>6. InRange(Count)
      BY <3>2, <3>5 DEF InRange
    <3> QED
      BY <2>2, <2>3, <3>4, <3>6 DEF Acceptable
  <2> QED
    BY <2>1, <2>4, <2>5
<1>9. LoadsWhatIsWritten'
  <2>1. CASE Acceptable
    BY <1>7, <2>1 DEF load_config, LoadsWhatIsWritten
  <2>2. CASE ~Acceptable
    BY <1>8, <2>2 DEF load_config, LoadsWhatIsWritten
  <2> QED
    BY <2>1, <2>2
<1> QED
  BY <1>2, <1>9 DEF IInv

(* load_client_config and load_server_config return what the file says, in *)
(* the ranges that the rest of the program needs, and refuse no valid      *)
(* file.                                                                   *)
THEOREM LoadsWhatIsWrittenHolds == Spec => []LoadsWhatIsWritten
<1>1. IInv /\ [Next]_vars => IInv'
  <2> SUFFICES ASSUME IInv, [Next]_vars PROVE IInv'
    OBVIOUS
  <2>1. CASE UNCHANGED vars
    <3>1. /\ kind' = kind /\ file' = file /\ next' = next
          /\ values' = values /\ outcome' = outcome /\ config' = config
      BY <2>1 DEF vars
    <3>2. \A key \in Keys : Found(key)'
      BY <3>1 DEF IInv, Parsed, Found, First
    <3>3. Parsed'
      BY <3>1, <3>2 DEF IInv, Parsed
    <3>4. NumbersAsWritten' = NumbersAsWritten
      BY <3>1 DEF NumbersAsWritten, Written, AsWritten
    <3>5. Valid' = Valid
      BY <3>1 DEF Valid, Written
    <3>6. InRanges' = InRanges
      BY <3>1 DEF InRanges
    <3>7. LoadsWhatIsWritten'
      BY <3>1, <3>4, <3>5, <3>6 DEF IInv, LoadsWhatIsWritten
    <3> QED
      BY <3>3, <3>7 DEF IInv
  <2> QED
    BY <2>1, LineInv, LoadInv DEF Next
<1>2. IInv => LoadsWhatIsWritten
  BY DEF IInv
<1> QED
  BY InitInv, <1>1, <1>2, PTL DEF Spec
=============================================================================
