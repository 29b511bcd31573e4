----------------------------- MODULE EntriesProofs -----------------------------
(***************************************************************************)
(* What is proved of the documents and of the entries in them: Payload and *)
(* Republish, and the types of every part of MCEntries.                    *)
(*                                                                         *)
(* Payload: a counter of dedupe_names never names what is still free, so a *)
(* number is found before the bound of the list (NamesInv).                *)
(*                                                                         *)
(* Republish: RepublishTypeOK is inductive because every writer hands on   *)
(* the words of one vocabulary and no others (HopSpelled).  The tables say *)
(* key by key what a written document is read into; from them follow what  *)
(* a client of the next panel connects to (NodeHop, RealityHop), that the  *)
(* fingerprint leaves nothing of the node open (NodeFromKey) and that both *)
(* checks of the probe read what the tunnel reads (ProbeMeetsEntry).       *)
(***************************************************************************)
EXTENDS ServingProofs

-----------------------------------------------------------------------------
(* Names (formats/mod.rs dedupe_names).                                     *)

\* A list holds finitely many names.
LEMMA NamesAreFinite ==
  ASSUME NEW list, list \in Seq(Range(list))
  PROVE  IsFiniteSet(ToSet(list)) /\ Cardinality(ToSet(list)) <= Len(list) /\ Cardinality(ToSet(list)) \in Nat
<1> DEFINE f == [i \in 1..Len(list) |-> list[i]]
<1>0. Len(list) \in Nat /\ DOMAIN list = 1..Len(list)
  OBVIOUS
<1>1. IsFiniteSet(1..Len(list)) /\ Cardinality(1..Len(list)) = Len(list)
  BY <1>0, FS_Interval
<1>2. f \in Surjection(1..Len(list), ToSet(list))
  <2>1. f \in [1..Len(list) -> ToSet(list)] /\ \A x \in ToSet(list) : \E i \in 1..Len(list) : f[i] = x
    BY <1>0 DEF ToSet
  <2> QED  BY <2>1 DEF Surjection
<1> QED  BY <1>0, <1>1, <1>2, FS_Surjection, FS_CardinalityType

\* A name is a list of what it holds.
LEMMA NamesAreLists ==
  ASSUME NEW name \in ShownNames
  PROVE  name \in Seq(Range(name))
<1>1. Len(name) \in Nat /\ name = [i \in 1..Len(name) |-> name[i]]
  BY NameAssumption
<1>2. name \in [1..Len(name) -> Range(name)]
  <2>1. DOMAIN name = 1..Len(name)
    BY <1>1
  <2>2. \A i \in 1..Len(name) : name[i] \in Range(name)
    BY <2>1 DEF Range
  <2> QED  BY <1>1, <2>2
<1> QED  BY <1>1, <1>2

\* Names that differ in their number differ.
LEMMA NumberedApart ==
  ASSUME NEW name, name \in Seq(Range(name)), NEW m, NEW n, Append(name, m) = Append(name, n)
  PROVE  m = n
<1>1. Append(name, m)[Len(name) + 1] = m /\ Append(name, n)[Len(name) + 1] = n
  OBVIOUS
<1> QED  BY <1>1

\* Among one candidate more than there are names taken, one is free; the first
\* of them is chosen.
LEMMA NumberedIsFree ==
  ASSUME NEW name, name \in Seq(Range(name)), NEW taken, IsFiniteSet(taken), NEW from \in Nat, Suffix(name) = from
  PROVE  /\ Numbered(name, taken) \in Nat /\ Numbered(name, taken) > from
         /\ Append(name, Numbered(name, taken)) \notin taken
         /\ \A m \in Nat : from < m /\ m < Numbered(name, taken) => Append(name, m) \in taken
<1> DEFINE range == from + 1 .. from + 1 + Cardinality(taken)
           free == {n \in range : Append(name, n) \notin taken}
           f == [n \in range |-> Append(name, n)]
<1>1. Cardinality(taken) \in Nat
  BY FS_CardinalityType
<1>2. IsFiniteSet(range) /\ Cardinality(range) = Cardinality(taken) + 1
  <2> DEFINE low == from + 1
             high == from + 1 + Cardinality(taken)
  <2>1. low \in Int /\ high \in Int /\ low <= high /\ high - low + 1 = Cardinality(taken) + 1
    BY <1>1
  <2> HIDE DEF low, high
  <2>2. IsFiniteSet(low..high) /\ Cardinality(low..high) = Cardinality(taken) + 1
    BY <2>1, FS_Interval
  <2> QED  BY <2>2 DEF low, high
<1>3. free # {}
  <2>1. SUFFICES ASSUME free = {} PROVE FALSE
    OBVIOUS
  <2>2. f \in [range -> taken]
    BY <2>1
  <2>3. \A m, n \in range : f[m] = f[n] => m = n
    BY NumberedApart
  <2>4. f \in Injection(range, taken)
    <3> HIDE DEF f, range
    <3> QED  BY <2>2, <2>3 DEF Injection, IsInjective
  <2>5. Cardinality(range) <= Cardinality(taken)
    BY <2>4, FS_Injection
  <2> QED  BY <1>1, <1>2, <2>5
<1>4. PICK n \in free : \A m \in free : n <= m
  <2>1. free \in SUBSET Nat
    BY <1>1
  <2> HIDE DEF free
  <2> QED  BY <1>3, <2>1, LeastNat
<1>5. n \in range /\ Append(name, n) \notin taken /\ \A m \in from + 1 .. n - 1 : Append(name, m) \in taken
  <2>1. n \in range /\ Append(name, n) \notin taken
    BY <1>4
  <2>2. ASSUME NEW m \in from + 1 .. n - 1
        PROVE  Append(name, m) \in taken
    <3>1. m \in range /\ ~(n <= m)
      BY <1>1, <2>1
    <3> QED  BY <1>4, <3>1
  <2> QED  BY <2>1, <2>2
<1>6. /\ Numbered(name, taken) \in range
      /\ Append(name, Numbered(name, taken)) \notin taken
      /\ \A m \in from + 1 .. Numbered(name, taken) - 1 : Append(name, m) \in taken
  BY <1>5 DEF Numbered
<1> HIDE DEF range, free, f
<1>7. Numbered(name, taken) \in Nat /\ Numbered(name, taken) > from
  BY <1>1, <1>6 DEF range
<1>8. \A m \in Nat : from < m /\ m < Numbered(name, taken) => m \in from + 1 .. Numbered(name, taken) - 1
  BY <1>7
<1> QED  BY <1>6, <1>7, <1>8

\* A counter has passed only numbers that were taken, and the bare name.
CountersAreUsedUp ==
    \A name \in DOMAIN suffixes :
        /\ name \in ShownNames /\ suffixes[name] \in Nat /\ suffixes[name] >= 2
        /\ name \in ToSet(names)
        /\ \A m \in 2..suffixes[name] : Append(name, m) \in ToSet(names)
NamesInv == names \in Seq(Range(names)) /\ Len(names) <= MaxNames /\ NamesAreUnique /\ CountersAreUsedUp

\* One more name in a list that has each once.
LEMMA OneMoreName ==
  ASSUME NEW list, list \in Seq(Range(list)), NEW new, new \notin ToSet(list),
         \A i, j \in DOMAIN list : list[i] = list[j] => i = j
  PROVE  LET longer == Append(list, new)
         IN  /\ longer \in Seq(Range(longer)) /\ Len(longer) = Len(list) + 1
             /\ ToSet(longer) = ToSet(list) \cup {new}
             /\ \A i, j \in DOMAIN longer : longer[i] = longer[j] => i = j
<1> DEFINE longer == Append(list, new)
<1>1. /\ Len(list) \in Nat /\ DOMAIN list = 1..Len(list)
      /\ DOMAIN longer = 1..Len(list) + 1 /\ Len(longer) = Len(list) + 1
      /\ \A i \in 1..Len(list) : longer[i] = list[i]
      /\ longer[Len(list) + 1] = new
  OBVIOUS
<1>2. longer \in Seq(Range(longer))
  <2> DEFINE S == Range(list) \cup {new}
  <2>1. longer \in Seq(S)
    <3>1. list \in Seq(S) /\ new \in S
      OBVIOUS
    <3> HIDE DEF S
    <3> QED  BY <3>1
  <2> HIDE DEF longer
  <2>2. longer \in [1..Len(list) + 1 -> S]
    BY <1>1, <2>1
  <2>3. \A i \in 1..Len(list) + 1 : longer[i] \in Range(longer)
    BY <1>1 DEF Range
  <2> QED  BY <1>1, <2>2, <2>3
<1> HIDE DEF longer
<1>3. \A i \in 1..Len(list) + 1 : i = Len(list) + 1 \/ i \in 1..Len(list)
  BY <1>1
<1>4. ToSet(longer) = ToSet(list) \cup {new}
  BY <1>1, <1>3 DEF ToSet
<1>5. ASSUME NEW i \in 1..Len(list) + 1, NEW j \in 1..Len(list) + 1, longer[i] = longer[j]
      PROVE  i = j
  <2>1. \A k \in 1..Len(list) : longer[k] \in ToSet(list)
    BY <1>1 DEF ToSet
  <2> QED  BY <1>1, <1>3, <1>5, <2>1
<1> QED  BY <1>1, <1>2, <1>4, <1>5 DEF longer

\* dedupe_names, one name.
LEMMA dedupe_name_Keeps ==
  ASSUME NamesInv, NEW name \in ShownNames, dedupe_name(name)
  PROVE  NamesInv'
<1> DEFINE taken == ToSet(names)
           number == Numbered(name, taken)
<1>0. /\ names \in Seq(Range(names)) /\ Len(names) \in Nat /\ Len(names) < MaxNames /\ MaxNames \in Nat
      /\ \A i, j \in DOMAIN names : names[i] = names[j] => i = j
      /\ name \in Seq(Range(name))
  BY NameAssumption, NamesAreLists DEF NamesInv, NamesAreUnique, dedupe_name
<1>1. IsFiniteSet(taken)
  BY <1>0, NamesAreFinite
<1>2. CASE name \notin taken
  <2>1. names' = Append(names, name) /\ suffixes' = suffixes
    BY <1>2 DEF dedupe_name
  <2>2. names' \in Seq(Range(names')) /\ Len(names') <= MaxNames /\ NamesAreUnique' /\ ToSet(names') = taken \cup {name}
    BY <1>0, <1>2, <2>1, OneMoreName DEF NamesAreUnique
  <2>3. CountersAreUsedUp'
    BY <2>1, <2>2 DEF CountersAreUsedUp, NamesInv
  <2> QED  BY <2>2, <2>3 DEF NamesInv
<1>3. CASE name \in taken
  <2>1. /\ names' = Append(names, Append(name, number))
        /\ DOMAIN suffixes' = DOMAIN suffixes \cup {name}
        /\ suffixes'[name] = number
        /\ \A other \in DOMAIN suffixes : other # name => suffixes'[other] = suffixes[other]
    BY <1>3 DEF dedupe_name
  <2>2. /\ Suffix(name) \in Nat /\ Suffix(name) >= 1
        /\ \A m \in 2..Suffix(name) : Append(name, m) \in taken
    BY DEF Suffix, NamesInv, CountersAreUsedUp
  <2>3. /\ number \in Nat /\ number > Suffix(name) /\ Append(name, number) \notin taken
        /\ \A m \in Nat : Suffix(name) < m /\ m < number => Append(name, m) \in taken
    BY <1>0, <1>1, <2>2, NumberedIsFree
  <2> HIDE DEF taken, number
  <2>4. /\ names' \in Seq(Range(names')) /\ Len(names') <= MaxNames /\ NamesAreUnique'
        /\ ToSet(names') = taken \cup {Append(name, number)}
    <3> DEFINE new == Append(name, number)
    <3>1. new \notin ToSet(names) /\ names' = Append(names, new)
      BY <2>1, <2>3 DEF taken
    <3> HIDE DEF new
    <3>2. /\ names' \in Seq(Range(names')) /\ Len(names') = Len(names) + 1
          /\ ToSet(names') = ToSet(names) \cup {new} /\ NamesAreUnique'
      BY <1>0, <3>1, OneMoreName DEF NamesAreUnique
    <3> QED  BY <1>0, <3>2 DEF new, taken
  <2>5. \A m \in 2..number : Append(name, m) \in ToSet(names')
    <3> SUFFICES ASSUME NEW m \in 2..number PROVE Append(name, m) \in ToSet(names')
      OBVIOUS
    <3>1. m \in Nat /\ (m = number \/ m \in 2..Suffix(name) \/ (Suffix(name) < m /\ m < number))
      BY <2>2, <2>3
    <3> QED  BY <2>2, <2>3, <2>4, <3>1
  <2>6. ASSUME NEW other \in DOMAIN suffixes'
        PROVE  /\ other \in ShownNames /\ suffixes'[other] \in Nat /\ suffixes'[other] >= 2
               /\ other \in ToSet(names')
               /\ \A m \in 2..suffixes'[other] : Append(other, m) \in ToSet(names')
    <3>1. CASE other = name
      BY <1>3, <2>1, <2>2, <2>3, <2>4, <2>5, <3>1 DEF taken
    <3>2. CASE other # name
      <4>1. other \in DOMAIN suffixes /\ suffixes'[other] = suffixes[other]
        BY <2>1, <2>6, <3>2
      <4> QED  BY <2>4, <4>1 DEF NamesInv, CountersAreUsedUp, taken
    <3> QED  BY <3>1, <3>2
  <2> QED  BY <2>4, <2>6 DEF NamesInv, CountersAreUsedUp
<1> QED  BY <1>2, <1>3

\* The counter of a name is at most the length of the list.
LEMMA CountersAreBounded ==
  ASSUME NamesInv, NEW name \in DOMAIN suffixes
  PROVE  suffixes[name] \in 2..MaxNames
<1> DEFINE top == suffixes[name]
           f == [m \in 1..top |-> IF m = 1 THEN name ELSE Append(name, m)]
<1>1. /\ name \in Seq(Range(name)) /\ MaxNames \in Nat /\ top \in Nat /\ top >= 2
      /\ name \in ToSet(names) /\ \A m \in 2..top : Append(name, m) \in ToSet(names)
      /\ names \in Seq(Range(names)) /\ Len(names) \in Nat /\ Len(names) <= MaxNames
  BY NameAssumption, NamesAreLists DEF NamesInv, CountersAreUsedUp
<1>2. \A m \in 1..top : m = 1 \/ m \in 2..top
  BY <1>1
<1>3. f \in [1..top -> ToSet(names)]
  BY <1>1, <1>2
<1>4. ASSUME NEW m \in 1..top, NEW n \in 1..top, f[m] = f[n]
      PROVE  m = n
  <2>1. \A k \in 1..top : k # 1 => f[k] = Append(name, k) /\ Append(name, k) # name
    <3> SUFFICES ASSUME NEW k \in 1..top PROVE Append(name, k) # name
      OBVIOUS
    <3>1. Len(Append(name, k)) = Len(name) + 1 /\ Len(name) \in Nat
      BY <1>1
    <3> QED  BY <3>1
  <2>2. f[1] = name
    BY <1>1
  <2> QED  BY <1>1, <1>4, <2>1, <2>2, NumberedApart
<1>5. f \in Injection(1..top, ToSet(names))
  <2> HIDE DEF f
  <2> QED  BY <1>3, <1>4 DEF Injection, IsInjective
<1>6. Cardinality(1..top) = top /\ IsFiniteSet(1..top)
  BY <1>1, FS_Interval
<1>7. IsFiniteSet(ToSet(names)) /\ Cardinality(ToSet(names)) <= Len(names) /\ Cardinality(ToSet(names)) \in Nat
  BY <1>1, NamesAreFinite
<1>8. top <= Cardinality(ToSet(names))
  BY <1>5, <1>6, <1>7, FS_Injection
<1> HIDE DEF top
<1>9. top \in 2..MaxNames
  BY <1>1, <1>7, <1>8
<1> QED  BY <1>9 DEF top

-----------------------------------------------------------------------------
(* Documents and Xray outbounds.                                            *)

DocumentInv == text \in Texts /\ (detected = Unread \/ detected = parse_subscription(text))
OutboundInv ==
    /\ outbound \in Outbounds /\ element \in 0..Len(outbound.endpoints)
    /\ \A i \in 1..element : \A j \in DOMAIN outbound.endpoints[i].users :
          (outbound.endpoints[i].address /\ outbound.endpoints[i].users[j] = "good") => <<i, j>> \in built
    /\ invalid <=> (element = Len(outbound.endpoints) /\ built = {} /\ element > 0)
PayloadInv == DocumentInv /\ NamesInv /\ OutboundInv

\* A document that a parser accepts is believed to be one when it is unwrapped.
LEMMA DocumentsLookLikeOnes ==
  ASSUME NEW t \in Texts, NEW format \in FormatKinds, IsOf(format, t.lines)
  PROVE  looks_like_subscription(t.lines) /\ Kept(t.lines, {"blank"}) # {}
<1> DEFINE lines == t.lines
<1>1. lines \in Seq(LineKinds) /\ DOMAIN lines = 1..Len(lines) /\ Len(lines) \in Nat
  BY LineAssumption DEF Texts
<1>2. CASE format = "url_list"
  <2>1. PICK i \in DOMAIN lines : lines[i] = "link"
    BY <1>2 DEF IsOf, IsList, HasLine
  <2> QED  BY <2>1 DEF looks_like_subscription, HasLine, Kept
<1>3. CASE format = "singbox"
  <2>1. PICK i \in Kept(lines, {"blank"}) :
             lines[i] \in {"object", "array"} /\ \A j \in Kept(lines, {"blank"}) : j = i \/ (j > i /\ lines[j] = "json")
    BY <1>3 DEF IsOf, IsJson, Braced
  <2>2. \A j \in Kept(lines, {"blank"}) : i <= j
    BY <1>1, <2>1 DEF Kept
  <2> QED  BY <2>1, <2>2 DEF looks_like_subscription, Opens
<1>4. CASE format = "clash"
  <2>1. CASE Braced(lines, YamlSkips, {"flow"})
    <3>1. PICK i \in DOMAIN lines : lines[i] = "flow"
      BY <2>1 DEF Braced, Kept
    <3> QED  BY <3>1 DEF looks_like_subscription, HasLine, Kept
  <2>2. CASE ~Braced(lines, YamlSkips, {"flow"})
    <3>1. PICK p \in DOMAIN lines : lines[p] = "proxies"
      BY <1>4, <2>2 DEF IsOf, IsClash, Kept
    <3> QED  BY <3>1 DEF looks_like_subscription, HasLine, Kept
  <2> QED  BY <2>1, <2>2
<1> QED  BY <1>2, <1>3, <1>4 DEF FormatKinds

\* What the leading character and the `proxies:` line say of what a parser
\* accepts, unless the document is an ambiguous one.
LEMMA DetectedAsItIs ==
  ASSUME NEW t \in Texts, NEW format \in FormatKinds, IsOf(format, t.lines), ~Ambiguous(t.lines)
  PROVE  detect_format(t.lines) = format
<1> DEFINE lines == t.lines
           braces == {"object", "array", "flow", "bracketed"}
<1>1. lines \in Seq(LineKinds) /\ DOMAIN lines = 1..Len(lines) /\ Len(lines) \in Nat
  BY LineAssumption DEF Texts
<1>2. \A i \in DOMAIN lines : lines[i] \in LineKinds
  BY <1>1
<1>3. CASE format = "url_list"
  <2>1. PICK l \in DOMAIN lines : lines[l] = "link"
    BY <1>3 DEF IsOf, IsList, HasLine
  <2>2. ~HasLine(lines, {"proxies"}) /\ ~Opens(lines, {"blank"}, {"bracketed"})
    BY <2>1 DEF Ambiguous, HasLine
  <2>3. \A i \in DOMAIN lines : lines[i] \notin {"object", "array", "flow"}
    BY <1>2, <1>3 DEF IsOf, IsList, HasLine, LineKinds
  <2>4. ~Opens(lines, {"blank"}, braces)
    BY <2>2, <2>3 DEF Opens, Kept
  <2> QED  BY <1>3, <2>2, <2>4 DEF detect_format
<1>4. CASE format = "singbox"
  <2>1. PICK i \in Kept(lines, {"blank"}) :
             lines[i] \in {"object", "array"} /\ \A j \in Kept(lines, {"blank"}) : j = i \/ (j > i /\ lines[j] = "json")
    BY <1>4 DEF IsOf, IsJson, Braced
  <2>2. \A j \in Kept(lines, {"blank"}) : i <= j
    BY <1>1, <2>1 DEF Kept
  <2>3. Opens(lines, {"blank"}, braces)
    BY <2>1, <2>2 DEF Opens
  <2> QED  BY <1>4, <2>3 DEF detect_format
<1>5. CASE format = "clash"
  <2>1. \A i \in DOMAIN lines : lines[i] # "flow"
    BY DEF Ambiguous, HasLine
  <2>2. ~Braced(lines, YamlSkips, {"flow"})
    BY <2>1 DEF Braced, Kept
  <2>3. PICK p, first \in Kept(lines, YamlSkips) :
             /\ lines[p] = "proxies" /\ lines[first] \in {"item", "nested"} /\ p < first
             /\ \A j \in Kept(lines, YamlSkips) : j <= p \/ first <= j
             /\ \A j \in Kept(lines, YamlSkips) : j = p \/ lines[j] \in {"key", "item", "nested"}
    BY <1>5, <2>2 DEF IsOf, IsClash
  <2>4. \A j \in DOMAIN lines : lines[j] \in YamlSkips \/ j = p \/ lines[j] \in {"key", "item", "nested"}
    BY <2>3 DEF Kept
  <2>5. \A j \in DOMAIN lines : lines[j] \notin braces
    BY <2>3, <2>4 DEF YamlSkips
  <2>6. ~Opens(lines, {"blank"}, braces)
    BY <2>5 DEF Opens, Kept
  <2>7. HasLine(lines, {"proxies"})
    BY <2>3 DEF HasLine, Kept
  <2> QED  BY <1>5, <2>6, <2>7 DEF detect_format
<1> QED  BY <1>3, <1>4, <1>5 DEF FormatKinds

\* parse_subscription: a document that some parser accepts, by a source that
\* does not misstate how it is wrapped.
LEMMA DocumentsAreRead ==
  ASSUME NEW t \in Texts, NEW format \in FormatKinds, IsOf(format, t.lines),
         t.encoding \in {"auto", IF t.base64 THEN "base64" ELSE "plain"},
         t.pin = format \/ (t.pin = "none" /\ ~Ambiguous(t.lines))
  PROVE  parse_subscription(t) = [format |-> format, links |-> IF format = "url_list" THEN Links(t.lines) ELSE {}]
<1>1. looks_like_subscription(t.lines) /\ decodes(t) = t.base64
  BY DocumentsLookLikeOnes DEF decodes, Texts
<1>2. decode_payload(t) = t.lines
  BY <1>1 DEF decode_payload, Texts
<1>3. ~(t.encoding = "base64" /\ ~decodes(t))
  BY <1>1 DEF Texts
<1>4. (IF t.pin = "none" THEN detect_format(t.lines) ELSE t.pin) = format
  BY DetectedAsItIs DEF FormatKinds
<1>5. ReadAs(format, t.lines) = [format |-> format, links |-> IF format = "url_list" THEN Links(t.lines) ELSE {}]
  BY DEF ReadAs, IsOf
<1> QED  BY <1>2, <1>3, <1>4, <1>5 DEF parse_subscription

\* The users of one endpoint.
LEMMA Endpoint_Keeps ==
  ASSUME OutboundInv, Endpoint
  PROVE  OutboundInv'
<1> DEFINE endpoints == outbound.endpoints
           i == element + 1
           users == Credentials(outbound, i)
           new == {<<i, j>> : j \in {k \in DOMAIN users : Usable(outbound, users[k])}}
<1>1. /\ Len(endpoints) \in Nat /\ element \in Nat /\ element < Len(endpoints)
      /\ outbound' = outbound /\ element' = i
      /\ built' = IF endpoints[i].address THEN built \cup new ELSE built
      /\ invalid' = (i = Len(endpoints) /\ built' = {})
  <2>1. endpoints \in Seq(Range(endpoints))
    BY OutboundAssumption DEF OutboundInv
  <2> QED  BY <2>1 DEF Endpoint, Visited, OutboundInv
<1>2. ASSUME NEW j \in DOMAIN endpoints[i].users, endpoints[i].address, endpoints[i].users[j] = "good"
      PROVE  <<i, j>> \in built'
  <2>1. users = endpoints[i].users
    <3>1. endpoints[i].users # << >>
      OBVIOUS
    <3> QED  BY <3>1 DEF Credentials
  <2>2. Usable(outbound, users[j])
    BY <1>2, <2>1 DEF Usable
  <2> QED  BY <1>1, <1>2, <2>1, <2>2
<1>3. built \subseteq built'
  BY <1>1
<1> HIDE DEF users, new
<1>4. \A k \in 1..i : k = i \/ k \in 1..element
  BY <1>1
<1>5. \A k \in 1..i : \A j \in DOMAIN endpoints[k].users :
          (endpoints[k].address /\ endpoints[k].users[j] = "good") => <<k, j>> \in built'
  BY <1>2, <1>3, <1>4 DEF OutboundInv
<1>6. i \in 0..Len(endpoints) /\ i > 0
  BY <1>1
<1> QED  BY <1>1, <1>5, <1>6 DEF OutboundInv

-----------------------------------------------------------------------------
(* Results.                                                                 *)

LEMMA PayloadStarts == PayloadInit => PayloadInv
<1> SUFFICES ASSUME PayloadInit PROVE PayloadInv
  OBVIOUS
<1>1. NamesInv
  <2>0. DOMAIN << >> = {} /\ Len(<< >>) = 0
    OBVIOUS
  <2>1. names = << >> /\ DOMAIN suffixes = {} /\ DOMAIN names = {} /\ Len(names) = 0
    BY <2>0 DEF PayloadInit
  <2>2. \A S : << >> \in Seq(S)
    OBVIOUS
  <2>3. names \in Seq(Range(names)) /\ Len(names) <= MaxNames
    BY <2>1, <2>2, NameAssumption
  <2> QED  BY <2>1, <2>3 DEF NamesInv, NamesAreUnique, CountersAreUsedUp
<1>2. Len(outbound.endpoints) \in Nat
  <2>1. outbound.endpoints \in Seq(Range(outbound.endpoints))
    BY OutboundAssumption DEF PayloadInit
  <2> QED  BY <2>1
<1>3. OutboundInv
  <2>1. outbound \in Outbounds /\ element = 0 /\ ~invalid
    BY DEF PayloadInit
  <2>2. 0 \in 0..Len(outbound.endpoints) /\ 1..0 = {} /\ ~(0 > 0)
    BY <1>2
  <2> QED  BY <2>1, <2>2 DEF OutboundInv
<1>4. DocumentInv
  BY DEF PayloadInit, DocumentInv
<1> QED  BY <1>1, <1>3, <1>4 DEF PayloadInv

LEMMA PayloadSteps == PayloadInv /\ [PayloadNext]_payloadVars => PayloadInv'
<1> SUFFICES ASSUME PayloadInv, [PayloadNext]_payloadVars PROVE PayloadInv'
  OBVIOUS
<1>1. CASE UNCHANGED payloadVars
  BY <1>1 DEF payloadVars, PayloadInv, DocumentInv, NamesInv, NamesAreUnique, CountersAreUsedUp, OutboundInv
<1>2. CASE Parse
  <2>1. DocumentInv'
    BY <1>2 DEF Parse, PayloadInv, DocumentInv
  <2>2. NamesInv' /\ OutboundInv'
    BY <1>2 DEF Parse, PayloadInv, NamesInv, NamesAreUnique, CountersAreUsedUp, OutboundInv
  <2> QED  BY <2>1, <2>2 DEF PayloadInv
<1>3. CASE Endpoint
  <2>1. OutboundInv'
    BY <1>3, Endpoint_Keeps DEF PayloadInv
  <2>2. NamesInv' /\ DocumentInv'
    BY <1>3 DEF Endpoint, PayloadInv, NamesInv, NamesAreUnique, CountersAreUsedUp, DocumentInv
  <2> QED  BY <2>1, <2>2 DEF PayloadInv
<1>4. ASSUME NEW name \in ShownNames, dedupe_name(name)
      PROVE  PayloadInv'
  <2>1. NamesInv'
    BY <1>4, dedupe_name_Keeps DEF PayloadInv
  <2>2. OutboundInv' /\ DocumentInv'
    BY <1>4 DEF dedupe_name, PayloadInv, OutboundInv, DocumentInv
  <2> QED  BY <2>1, <2>2 DEF PayloadInv
<1> QED  BY <1>1, <1>2, <1>3, <1>4 DEF PayloadNext

LEMMA PayloadInvariant == PayloadSpec => []PayloadInv
BY PayloadStarts, PayloadSteps, PTL DEF PayloadSpec

\* Every document a parser accepts, of any number of lines, is read as what it is
\* and a list down to its last link, ambiguous ones only under a pin; no two names
\* of a written document are equal, and a broken endpoint of an Xray outbound
\* costs only itself: for every outbound, any names and lists of any length.
THEOREM DocumentsSurvive == PayloadSpec => []DocumentsSurviveTheirFormat
<1>1. DocumentInv => DocumentsAreRecognised
  <2> SUFFICES ASSUME DocumentInv, NEW format \in FormatKinds, detected # Unread,
                      text.encoding \in {"auto", IF text.base64 THEN "base64" ELSE "plain"},
                      IsOf(format, text.lines),
                      text.pin = format \/ (text.pin = "none" /\ ~Ambiguous(text.lines))
               PROVE  detected = [format |-> format, links |-> IF format = "url_list" THEN Links(text.lines) ELSE {}]
    BY DEF DocumentsAreRecognised
  <2>1. text \in Texts
    BY DEF DocumentInv
  <2>2. detected = parse_subscription(text)
    BY DEF DocumentInv
  <2> QED  BY <2>1, <2>2, DocumentsAreRead
<1>2. OutboundInv => JunkCostsOnlyItself
  <2> SUFFICES ASSUME OutboundInv PROVE JunkCostsOnlyItself
    OBVIOUS
  <2> QED  BY DEF OutboundInv, JunkCostsOnlyItself
<1>3. PayloadInv => DocumentsSurviveTheirFormat
  BY <1>1, <1>2 DEF PayloadInv, NamesInv, DocumentsSurviveTheirFormat
<1> QED  BY <1>3, PayloadInvariant, PTL

\* Types, and no counter beyond the bound of the list.
LEMMA PayloadTypes == PayloadInv => PayloadTypeOK
<1> SUFFICES ASSUME PayloadInv PROVE PayloadTypeOK
  OBVIOUS
<1> DEFINE Outcomes == [format : FormatKinds \cup {"", "error"}, links : SUBSET Nat]
<1>1. detected \in Outcomes
  <2>0. text \in Texts
    BY DEF PayloadInv, DocumentInv
  <2>1. decode_payload(text) \in Seq(LineKinds)
    <3>1. <<"note">> \in Seq(LineKinds)
      BY DEF LineKinds
    <3> QED  BY <2>0, <3>1, LineAssumption DEF decode_payload, Texts
  <2>2. Links(decode_payload(text)) \subseteq Nat
    BY <2>1 DEF Links
  <2>3. Unusable \in Outcomes /\ Unread \in Outcomes
    BY DEF Unusable, Unread
  <2>4. \A format \in FormatKinds : ReadAs(format, decode_payload(text)) \in Outcomes
    BY <2>2, <2>3 DEF ReadAs
  <2>5. text.pin \in {"none"} \cup FormatKinds /\ detect_format(decode_payload(text)) \in FormatKinds
    BY <2>0 DEF Texts, detect_format, FormatKinds
  <2>6. parse_subscription(text) \in Outcomes
    BY <2>3, <2>4, <2>5 DEF parse_subscription
  <2>7. detected = Unread \/ detected = parse_subscription(text)
    BY DEF PayloadInv, DocumentInv
  <2> HIDE DEF Outcomes
  <2> QED  BY <2>3, <2>6, <2>7
<1> QED  BY <1>1, CountersAreBounded DEF PayloadInv, NamesInv, PayloadTypeOK

-----------------------------------------------------------------------------
(* Certificate verification over any chain of formats.                      *)

LEMMA GivenParams ==
  ASSUME NEW given
  PROVE  /\ DOMAIN Params(given) = ParamKeys
         /\ \A k \in ParamKeys : Params(given)[k] = IF k \in DOMAIN given THEN given[k] ELSE Absent
BY DEF Params

\* Every writer writes a whole entry, in its own dialect.
LEMMA SerializedIsEntry ==
  ASSUME NEW e, IsEntry(e), NEW format \in {"url_list", "clash", "singbox"}
  PROVE  IsEntry(Serialized(format, e)) /\ Serialized(format, e).scheme = e.scheme
<1>1. CASE format = "url_list"
  <2>1. Serialized(format, e) = via_uri(e)
    BY <1>1 DEF Serialized
  <2>2. IsEntry(canonical_uri_entry(e)) /\ canonical_uri_entry(e).scheme = e.scheme
    BY GivenParams DEF canonical_uri_entry, IsEntry
  <2> QED  BY <2>1, <2>2 DEF via_uri, IsEntry
<1>2. CASE format = "clash"
  <2>1. Serialized(format, e) = via_clash(e)
    BY <1>2 DEF Serialized
  <2>2. DOMAIN entry_to_clash(e) = ParamKeys
    BY GivenParams DEF entry_to_clash
  <2> QED  BY <2>1, <2>2 DEF via_clash, IsEntry
<1>3. CASE format = "singbox"
  <2>1. Serialized(format, e) = via_singbox(e)
    BY <1>3 DEF Serialized
  <2>2. \A o : DOMAIN parse_outbound(e.scheme, o) = ParamKeys
    BY GivenParams DEF parse_outbound
  <2> QED  BY <2>1, <2>2 DEF via_singbox, IsEntry
<1> QED  BY <1>1, <1>2, <1>3

LEMMA NothingPut == DOMAIN << >> = {}
  OBVIOUS

LEMMA SecurityKeys ==
  ASSUME NEW scheme, NEW p
  PROVE  DOMAIN translated_security(scheme, p) \subseteq {"tls", "security"}
BY NothingPut, Over, MapletKey DEF translated_security

\* A URI line is insecure when the entry is.
LEMMA UriToggle ==
  ASSUME NEW e, IsEntry(e), is_insecure(canonical_uri_entry(e).params)
  PROVE  is_insecure(e.params)
<1> DEFINE p == e.params
           q == canonical_uri_entry(e).params
<1>1. DOMAIN e = {"scheme", "dialect", "credential", "params", "lost"}
  BY DEF IsEntry
<1>2. InsecureAliases \subseteq ParamKeys
  BY DEF InsecureAliases, ParamKeys, UriKeys, ClashKeys
<1>3. ASSUME NEW k \in InsecureAliases, is_truthy_toggle(q[k]), ~is_truthy_toggle(p["skip-cert-verify"])
      PROVE  is_truthy_toggle(p[k])
  <2>1. translated_toggle(e.scheme, p) = << >>
    BY <1>3 DEF translated_toggle
  <2>2. ~is_truthy_toggle(Absent)
    BY DEF is_truthy_toggle, Absent
  <2>3. k \notin DOMAIN translated_security(e.scheme, p)
    BY SecurityKeys DEF InsecureAliases
  <2> DEFINE passed == [x \in {"plugin-opts"} |-> p[x]]
             kept == [x \in UriKeys |-> p[x]]
             flat == Maplet(network_key(e.scheme), network_of(e))
                ++ Maplet("sni", Or(p["sni"], p["servername"]))
                ++ Maplet("path", Or(p["path"], Or(p["ws-opts.path"], Or(p["h2-opts.path"], p["http-opts.path"]))))
                ++ Maplet("host", Or(p["host"], Or(p["ws-opts.host"], Or(p["h2-opts.host"], p["http-opts.host"]))))
                ++ Maplet("servicename", Or(p["servicename"], p["grpc-opts.service"]))
                ++ Maplet("fp", Or(p["fp"], p["client-fingerprint"]))
                ++ Maplet("pbk", reality_public_key(p)) ++ Maplet("sid", reality_short_id(p))
                ++ Maplet("scy", Or(p["scy"], If(e.scheme = "vmess", p["cipher"])))
             given == translated_toggle(e.scheme, p) ++ translated_security(e.scheme, p) ++ flat ++ passed ++ kept
  <2>4. q = Params(given)
    BY <1>1 DEF canonical_uri_entry
  <2>5. k \notin DOMAIN flat
    <3>1. network_key(e.scheme) \in {"net", "type"}
      BY DEF network_key
    <3> QED  BY <3>1, Over, MapletKey DEF InsecureAliases
  <2>6. DOMAIN passed = {"plugin-opts"} /\ DOMAIN kept = UriKeys /\ \A x \in UriKeys : kept[x] = p[x]
    OBVIOUS
  <2> HIDE DEF flat, passed, kept
  <2>7. k \notin DOMAIN flat /\ k \notin DOMAIN passed /\ k \notin DOMAIN << >>
    BY <2>5, <2>6, NothingPut DEF InsecureAliases
  <2>8. k \in DOMAIN given => k \in DOMAIN kept /\ given[k] = kept[k]
    BY <2>1, <2>3, <2>7, Over
  <2> HIDE DEF given, q
  <2>9. q[k] = IF k \in DOMAIN given THEN given[k] ELSE Absent
    BY <1>2, <2>4, GivenParams
  <2> QED  BY <1>3, <2>2, <2>6, <2>8, <2>9
<1> QED  BY <1>3 DEF is_insecure, InsecureAliases

LEMMA AbsentIsNothing == ~is_truthy_toggle(Absent) /\ Absent \notin {"true", "1", "tls", "reality", "ws", "grpc", "http", "h2", "tcp"}
  BY DEF is_truthy_toggle, Absent

LEMMA TransportKeys ==
  ASSUME NEW e, NEW k \in DOMAIN put_transport(e)
  PROVE  k \in {"network", "ws-opts.path", "ws-opts.host", "grpc-opts.service",
                "h2-opts.path", "h2-opts.host", "http-opts.path", "http-opts.host"}
BY AbsentIsNothing, NothingPut, Over, MapletKey DEF put_transport, Networks

\* No writer of Clash fields but the toggle's own touches a toggle.
LEMMA ClashKeysApart ==
  ASSUME NEW e, NEW k \in InsecureAliases
  PROVE  /\ k \notin DOMAIN put_transport(e) /\ k \notin DOMAIN put_reality_opts(e.params)
         /\ k \notin DOMAIN put_ss_plugin(e.params)
<1>1. k \notin DOMAIN put_transport(e)
  BY TransportKeys DEF InsecureAliases
<1>2. k \notin DOMAIN put_reality_opts(e.params)
  BY Over, MapletKey DEF InsecureAliases, put_reality_opts
<1>3. k \notin DOMAIN put_ss_plugin(e.params)
  BY Over, MapletKey DEF InsecureAliases, put_ss_plugin
<1> QED  BY <1>1, <1>2, <1>3

\* A Clash item is insecure when the entry is.
LEMMA ClashToggle ==
  ASSUME NEW e, clash_is_supported(e.scheme), is_insecure(entry_to_clash(e))
  PROVE  is_insecure(e.params)
<1> DEFINE p == e.params
           q == entry_to_clash(e)
           tail == Maplet("skip-cert-verify", If(is_insecure(p), "true"))
<1>1. \E fields : q = Params(tail ++ fields) /\ \A k \in InsecureAliases : k \notin DOMAIN fields
  <2>1. CASE e.scheme = "vless"
    <3>1. q = Params(tail ++ clash_vless(e))
      BY <2>1 DEF entry_to_clash
    <3>2. \A k \in InsecureAliases : k \notin DOMAIN clash_vless(e)
      <4> SUFFICES ASSUME NEW k \in InsecureAliases PROVE k \notin DOMAIN clash_vless(e)
        OBVIOUS
      <4>1. k \notin DOMAIN put_transport(e) /\ k \notin DOMAIN put_reality_opts(e.params)
        BY ClashKeysApart
      <4> QED  BY <4>1, Over, MapletKey DEF clash_vless, clash_server, InsecureAliases
    <3> QED  BY <3>1, <3>2
  <2>2. CASE e.scheme = "vmess"
    <3>1. q = Params(tail ++ clash_vmess(e))
      BY <2>2 DEF entry_to_clash
    <3>2. \A k \in InsecureAliases : k \notin DOMAIN clash_vmess(e)
      <4> SUFFICES ASSUME NEW k \in InsecureAliases PROVE k \notin DOMAIN clash_vmess(e)
        OBVIOUS
      <4>1. k \notin DOMAIN put_transport(e) /\ k \notin DOMAIN put_reality_opts(e.params)
        BY ClashKeysApart
      <4> QED  BY <4>1, Over, MapletKey DEF clash_vmess, clash_server, InsecureAliases
    <3> QED  BY <3>1, <3>2
  <2>3. CASE e.scheme = "trojan"
    <3>1. q = Params(tail ++ clash_trojan(e))
      BY <2>3 DEF entry_to_clash
    <3>2. \A k \in InsecureAliases : k \notin DOMAIN clash_trojan(e)
      <4> SUFFICES ASSUME NEW k \in InsecureAliases PROVE k \notin DOMAIN clash_trojan(e)
        OBVIOUS
      <4>1. k \notin DOMAIN put_transport(e) /\ k \notin DOMAIN put_reality_opts(e.params)
        BY ClashKeysApart
      <4> QED  BY <4>1, Over, MapletKey DEF clash_trojan, InsecureAliases
    <3> QED  BY <3>1, <3>2
  <2>4. CASE e.scheme = "ss"
    <3>1. q = Params(tail ++ put_ss_plugin(p))
      BY <2>4 DEF entry_to_clash
    <3> QED  BY <3>1, ClashKeysApart
  <2>5. CASE e.scheme = "hysteria2"
    <3>1. q = Params(tail ++ clash_hysteria2(p))
      BY <2>5 DEF entry_to_clash
    <3>2. \A k \in InsecureAliases : k \notin DOMAIN clash_hysteria2(p)
      BY Over, MapletKey DEF clash_hysteria2, InsecureAliases
    <3> QED  BY <3>1, <3>2
  <2>6. CASE e.scheme = "socks5"
    <3>1. q = Params(tail ++ Maplet("tls", If(is_truthy_toggle(p["tls"]), "true")))
      BY <2>6 DEF entry_to_clash
    <3>2. \A k \in InsecureAliases : k \notin DOMAIN Maplet("tls", If(is_truthy_toggle(p["tls"]), "true"))
      BY MapletKey DEF InsecureAliases
    <3> QED  BY <3>1, <3>2
  <2>7. CASE e.scheme = "anytls"
    <3>1. q = Params(tail ++ Maplet("sni", p["sni"]))
      BY <2>7 DEF entry_to_clash
    <3>2. \A k \in InsecureAliases : k \notin DOMAIN Maplet("sni", p["sni"])
      BY MapletKey DEF InsecureAliases
    <3> QED  BY <3>1, <3>2
  <2> QED  BY <2>1, <2>2, <2>3, <2>4, <2>5, <2>6, <2>7 DEF clash_is_supported, singbox_is_supported
<1>2. PICK fields : q = Params(tail ++ fields) /\ \A k \in InsecureAliases : k \notin DOMAIN fields
  BY <1>1
<1>3. InsecureAliases \subseteq ParamKeys
  BY DEF InsecureAliases, ParamKeys, UriKeys, ClashKeys
<1>4. ASSUME NEW k \in InsecureAliases, is_truthy_toggle(q[k])
      PROVE  is_insecure(p)
  <2>1. k \in DOMAIN (tail ++ fields) /\ is_truthy_toggle((tail ++ fields)[k])
    BY <1>2, <1>3, <1>4, GivenParams, AbsentIsNothing
  <2>2. k = "skip-cert-verify" /\ (tail ++ fields)[k] = If(is_insecure(p), "true")
    BY <1>2, <2>1, Over, MapletKey
  <2> QED  BY <2>1, <2>2, AbsentIsNothing DEF If
<1> QED  BY <1>4 DEF is_insecure

\* A sing-box outbound is insecure when the entry is.
LEMMA TlsParamsToggle ==
  ASSUME NEW tls, NEW security \in {"security", "tls"}, NEW k \in InsecureAliases,
         k \in DOMAIN native_tls_params(tls, security)
  PROVE  tls.on /\ k = "insecure" /\ native_tls_params(tls, security)[k] = If(tls.insecure, "true")
<1>1. tls.on
  BY NothingPut DEF native_tls_params
<1>2. native_tls_params(tls, security) =
          Maplet(security, IF (tls.pbk # Absent \/ tls.sid # Absent) /\ security = "security" THEN "reality" ELSE "tls")
          ++ Maplet("pbk", tls.pbk) ++ Maplet("sid", tls.sid) ++ Maplet("sni", tls.sni) ++ Maplet("alpn", tls.alpn)
          ++ Maplet("fp", tls.fp) ++ Maplet("insecure", If(tls.insecure, "true"))
  BY <1>1 DEF native_tls_params
<1>3. k = "insecure"
  BY <1>2, Over, MapletKey DEF InsecureAliases
<1> QED  BY <1>1, <1>2, <1>3, Over, MapletKey

LEMMA NativeTransportKeys ==
  ASSUME NEW t, t.type \in {Absent, "ws", "http", "grpc"}, NEW key \in {"type", "net"}, NEW k \in InsecureAliases
  PROVE  k \notin DOMAIN native_transport_params(t, key)
BY AbsentIsNothing, NothingPut, Over, MapletKey DEF native_transport_params, InsecureAliases

LEMMA TransportTypes ==
  ASSUME NEW e
  PROVE  transport_object(e).type \in {Absent, "ws", "http", "grpc"}
BY AbsentIsNothing DEF transport_object, Networks

LEMMA OutboundTls ==
  ASSUME NEW e, e.scheme \in {"vless", "vmess", "trojan", "hysteria2", "socks5"}
  PROVE  /\ entry_to_outbound(e).tls.on => (entry_to_outbound(e).tls.insecure <=> is_insecure(e.params))
         /\ e.scheme \in {"vless", "vmess", "trojan"} => entry_to_outbound(e).transport = transport_object(e)
<1>1. CASE e.scheme = "vless"
  BY <1>1 DEF entry_to_outbound, tls_object, NoTls
<1>2. CASE e.scheme = "vmess"
  BY <1>2 DEF entry_to_outbound, tls_object, NoTls
<1>3. CASE e.scheme = "trojan"
  BY <1>3 DEF entry_to_outbound, tls_object
<1>4. CASE e.scheme = "hysteria2"
  BY <1>4 DEF entry_to_outbound, tls_object
<1>5. CASE e.scheme = "socks5"
  BY <1>5 DEF entry_to_outbound, NoTls
<1> QED  BY <1>1, <1>2, <1>3, <1>4, <1>5

LEMMA SingboxToggle ==
  ASSUME NEW e, singbox_is_supported(e.scheme), is_insecure(parse_outbound(e.scheme, entry_to_outbound(e)))
  PROVE  is_insecure(e.params)
<1> DEFINE o == entry_to_outbound(e)
           q == parse_outbound(e.scheme, o)
           Truthful(given) == \A k \in InsecureAliases :
                                 k \in DOMAIN given => given[k] = If(is_insecure(e.params), "true") \/ given[k] = Absent
<1>1. \E given : q = Params(given) /\ Truthful(given)
  <2>1. CASE e.scheme = "vless"
    <3>1. q = Params(native_vless(o))
      BY <2>1 DEF parse_outbound
    <3>2. ASSUME NEW k \in InsecureAliases, k \in DOMAIN native_vless(o)
          PROVE  native_vless(o)[k] = If(is_insecure(e.params), "true")
      <4>1. k \notin DOMAIN native_transport_params(o.transport, "type") /\ k # "flow"
        BY <2>1, OutboundTls, TransportTypes, NativeTransportKeys DEF InsecureAliases
      <4>2. k \in DOMAIN native_tls_params(o.tls, "security")
            /\ native_vless(o)[k] = native_tls_params(o.tls, "security")[k]
        BY <3>2, <4>1, Over, MapletKey DEF native_vless
      <4> QED  BY <2>1, <4>2, TlsParamsToggle, OutboundTls DEF If
    <3> QED  BY <3>1, <3>2
  <2>2. CASE e.scheme = "vmess"
    <3>1. q = Params(native_vmess(o))
      BY <2>2 DEF parse_outbound
    <3>2. ASSUME NEW k \in InsecureAliases, k \in DOMAIN native_vmess(o)
          PROVE  native_vmess(o)[k] = If(is_insecure(e.params), "true")
      <4>1. k \notin DOMAIN native_transport_params(o.transport, "net") /\ k # "scy"
        BY <2>2, OutboundTls, TransportTypes, NativeTransportKeys DEF InsecureAliases
      <4>2. k \in DOMAIN native_tls_params(o.tls, "tls")
            /\ native_vmess(o)[k] = native_tls_params(o.tls, "tls")[k]
        BY <3>2, <4>1, Over, MapletKey DEF native_vmess
      <4> QED  BY <2>2, <4>2, TlsParamsToggle, OutboundTls DEF If
    <3> QED  BY <3>1, <3>2
  <2>3. CASE e.scheme = "trojan"
    <3>1. q = Params(native_trojan(o))
      BY <2>3 DEF parse_outbound
    <3>2. ASSUME NEW k \in InsecureAliases, k \in DOMAIN native_trojan(o)
          PROVE  native_trojan(o)[k] = If(is_insecure(e.params), "true")
      <4>1. k \notin DOMAIN native_transport_params(o.transport, "type")
        BY <2>3, OutboundTls, TransportTypes, NativeTransportKeys
      <4>2. k \in DOMAIN native_tls_params(o.tls, "security")
            /\ native_trojan(o)[k] = native_tls_params(o.tls, "security")[k]
        BY <3>2, <4>1, Over DEF native_trojan
      <4> QED  BY <2>3, <4>2, TlsParamsToggle, OutboundTls DEF If
    <3> QED  BY <3>1, <3>2
  <2>4. CASE e.scheme = "ss"
    <3>1. q = Params(native_ss(o))
      BY <2>4 DEF parse_outbound
    <3>2. \A k \in InsecureAliases : k \notin DOMAIN native_ss(o)
      BY Over, MapletKey DEF native_ss, InsecureAliases
    <3> QED  BY <3>1, <3>2
  <2>5. CASE e.scheme = "hysteria2"
    <3>1. q = Params(native_hysteria2(o))
      BY <2>5 DEF parse_outbound
    <3>2. ASSUME NEW k \in InsecureAliases, k \in DOMAIN native_hysteria2(o)
          PROVE  native_hysteria2(o)[k] = If(is_insecure(e.params), "true")
      <4>1. k \in DOMAIN native_tls_params(o.tls, "security")
            /\ native_hysteria2(o)[k] = native_tls_params(o.tls, "security")[k]
        BY <3>2, Over, MapletKey DEF native_hysteria2, InsecureAliases
      <4> QED  BY <2>5, <4>1, TlsParamsToggle, OutboundTls DEF If
    <3> QED  BY <3>1, <3>2
  <2>6. CASE e.scheme = "socks5"
    <3>1. q = Params(native_socks(o))
      BY <2>6 DEF parse_outbound
    <3>2. ASSUME NEW k \in InsecureAliases, k \in DOMAIN native_socks(o)
          PROVE  native_socks(o)[k] = If(is_insecure(e.params), "true")
      <4>1. o.tls.on
        BY <3>2, NothingPut DEF native_socks
      <4>2. native_socks(o) = Maplet("tls", "true") ++ Maplet("sni", o.tls.sni) ++ Maplet("insecure", If(o.tls.insecure, "true"))
        BY <4>1 DEF native_socks
      <4>3. native_socks(o)[k] = If(o.tls.insecure, "true")
        BY <3>2, <4>2, Over, MapletKey DEF InsecureAliases
      <4> QED  BY <2>6, <4>1, <4>3, OutboundTls DEF If
    <3> QED  BY <3>1, <3>2
  <2> QED  BY <2>1, <2>2, <2>3, <2>4, <2>5, <2>6 DEF singbox_is_supported
<1>2. PICK given : q = Params(given) /\ Truthful(given)
  BY <1>1
<1>3. InsecureAliases \subseteq ParamKeys
  BY DEF InsecureAliases, ParamKeys, UriKeys, ClashKeys
<1>4. ASSUME NEW k \in InsecureAliases, is_truthy_toggle(q[k])
      PROVE  is_insecure(e.params)
  <2>1. k \in DOMAIN given /\ is_truthy_toggle(given[k])
    BY <1>2, <1>3, <1>4, GivenParams, AbsentIsNothing
  <2> QED  BY <1>2, <2>1, AbsentIsNothing DEF If
<1> QED  BY <1>4 DEF is_insecure

\* One hop, whatever the format.
LEMMA HopKeepsVerification ==
  ASSUME NEW e, IsEntry(e), NEW format \in {"url_list", "clash", "singbox"},
         is_insecure(Serialized(format, e).params)
  PROVE  is_insecure(e.params)
<1>0. DOMAIN e = {"scheme", "dialect", "credential", "params", "lost"}
  BY DEF IsEntry
<1>1. CASE format = "url_list"
  <2>1. Serialized(format, e) = via_uri(e)
    BY <1>1 DEF Serialized
  <2>2. DOMAIN canonical_uri_entry(e) = DOMAIN e
    BY DEF canonical_uri_entry
  <2>3. via_uri(e).params = (IF e.dialect = "uri" THEN e ELSE canonical_uri_entry(e)).params
    BY <1>0, <2>2 DEF via_uri
  <2> QED  BY <2>1, <2>3, UriToggle
<1>2. CASE format = "clash"
  <2>1. Serialized(format, e).params = IF clash_is_supported(e.scheme) THEN entry_to_clash(e) ELSE e.params
    BY <1>0, <1>2 DEF Serialized, via_clash
  <2> QED  BY <2>1, ClashToggle
<1>3. CASE format = "singbox"
  <2>1. Serialized(format, e).params = IF singbox_is_supported(e.scheme)
                                       THEN parse_outbound(e.scheme, entry_to_outbound(e)) ELSE e.params
    BY <1>0, <1>3 DEF Serialized, via_singbox
  <2> QED  BY <2>1, SingboxToggle
<1> QED  BY <1>1, <1>2, <1>3

RepublishInv == IsEntry(current) /\ hops \in 0..MaxHops

LEMMA RepublishInvariant == RepublishSpec => []RepublishInv
<1>1. RepublishInit => RepublishInv
  BY EntryAssumption DEF RepublishInit, RepublishInv
<1>2. RepublishInv /\ [RepublishNext]_entryVars => RepublishInv'
  <2> SUFFICES ASSUME RepublishInv, [RepublishNext]_entryVars PROVE RepublishInv'
    OBVIOUS
  <2>1. CASE UNCHANGED entryVars
    BY <2>1 DEF entryVars, RepublishInv, IsEntry
  <2>2. ASSUME NEW format \in {"url_list", "clash", "singbox"}, Republished(format)
        PROVE  RepublishInv'
    BY <2>2, SerializedIsEntry, EntryAssumption DEF Republished, RepublishInv
  <2> QED  BY <2>1, <2>2 DEF RepublishNext
<1> QED  BY <1>1, <1>2, PTL DEF RepublishSpec

\* Certificate verification is never switched off by a chain of panels, for
\* any entry whatever its parameters say and in whichever dialect.
THEOREM ChainsKeepVerification == RepublishSpec => VerificationStaysOn
<1>1. RepublishInv /\ [RepublishNext]_entryVars => [is_insecure(current'.params) => is_insecure(current.params)]_entryVars
  <2> SUFFICES ASSUME RepublishInv, RepublishNext, is_insecure(current'.params)
               PROVE  is_insecure(current.params)
    OBVIOUS
  <2>1. PICK format \in {"url_list", "clash", "singbox"} : Republished(format)
    BY DEF RepublishNext
  <2> QED  BY <2>1, HopKeepsVerification DEF Republished, RepublishInv
<1> QED  BY <1>1, RepublishInvariant, PTL DEF RepublishSpec, VerificationStaysOn

-----------------------------------------------------------------------------
(* What each writer's document is read into, key by key.                    *)

(* What is read of parameters put together. *)
Read(f, k) == IF k \in DOMAIN f THEN f[k] ELSE Absent

LEMMA ReadParams == \A f : \A k \in ParamKeys : Params(f)[k] = Read(f, k)
  BY GivenParams DEF Read
LEMMA ReadOver == \A f, g, k : Read(f ++ g, k) = IF k \in DOMAIN f THEN Read(f, k) ELSE Read(g, k)
  BY Over DEF Read
LEMMA ReadMaplet == \A key, value, k : Read(Maplet(key, value), k) = IF k = key THEN value ELSE Absent
  BY MapletKey DEF Read
LEMMA ReadNothing == \A k : Read(<< >>, k) = Absent
  BY NothingPut DEF Read
LEMMA DomOver == \A f, g, k : k \in DOMAIN (f ++ g) <=> (k \in DOMAIN f \/ k \in DOMAIN g)
  BY Over
LEMMA DomMaplet == \A key, value, k : k \in DOMAIN Maplet(key, value) <=> k = key
  BY MapletKey

LEMMA MapletDomain == \A key, value : DOMAIN Maplet(key, value) = {key}
  BY DEF Maplet
LEMMA DomainOver == \A f, g : DOMAIN (f ++ g) = DOMAIN f \cup DOMAIN g
  BY Over

\* The URI translation, key by key.
LEMMA UriTable ==
  ASSUME NEW e, IsEntry(e)
  PROVE  LET p == e.params
             q == canonical_uri_entry(e).params
             n == network_key(e.scheme)
         IN  /\ q[n] = network_of(e)
             /\ q["sni"] = Or(p["sni"], p["servername"])
             /\ q["path"] = Or(p["path"], Or(p["ws-opts.path"], Or(p["h2-opts.path"], p["http-opts.path"])))
             /\ q["host"] = Or(p["host"], Or(p["ws-opts.host"], Or(p["h2-opts.host"], p["http-opts.host"])))
             /\ q["servicename"] = Or(p["servicename"], p["grpc-opts.service"])
             /\ q["fp"] = Or(p["fp"], p["client-fingerprint"])
             /\ q["pbk"] = reality_public_key(p) /\ q["sid"] = reality_short_id(p)
             /\ q["scy"] = Or(p["scy"], If(e.scheme = "vmess", p["cipher"]))
             /\ \A k \in UriKeys \ {n, "sni", "path", "host", "servicename", "fp", "pbk", "sid", "scy",
                                    "tls", "security", "insecure", "allowinsecure"} : q[k] = p[k]
             /\ q["plugin-opts"] = p["plugin-opts"]
             /\ \A k \in ClashKeys \ {"plugin-opts"} : q[k] = Absent
             /\ e.scheme \in TlsFamily =>
                  /\ q["tls"] = Absent
                  /\ q["security"] = IF reality_public_key(p) # Absent THEN "reality"
                                     ELSE Or(p["security"], If(TlsStated(p), "tls"))
             /\ e.scheme = "vmess" => q["tls"] = If(TlsStated(p), "tls") /\ q["security"] = p["security"]
             /\ e.scheme \notin TlsFamily \cup {"vmess"} => q["tls"] = p["tls"] /\ q["security"] = p["security"]
             /\ \A k \in {"insecure", "allowinsecure"} :
                   q[k] = IF is_truthy_toggle(p["skip-cert-verify"]) /\ k \in DOMAIN toggle_key(e.scheme) THEN "1" ELSE p[k]
<1> DEFINE p == e.params
           q == canonical_uri_entry(e).params
           n == network_key(e.scheme)
           Flat == {n, "sni", "path", "host", "servicename", "fp", "pbk", "sid", "scy"}
           flat == Maplet(n, network_of(e))
                ++ Maplet("sni", Or(p["sni"], p["servername"]))
                ++ Maplet("path", Or(p["path"], Or(p["ws-opts.path"], Or(p["h2-opts.path"], p["http-opts.path"]))))
                ++ Maplet("host", Or(p["host"], Or(p["ws-opts.host"], Or(p["h2-opts.host"], p["http-opts.host"]))))
                ++ Maplet("servicename", Or(p["servicename"], p["grpc-opts.service"]))
                ++ Maplet("fp", Or(p["fp"], p["client-fingerprint"]))
                ++ Maplet("pbk", reality_public_key(p)) ++ Maplet("sid", reality_short_id(p))
                ++ Maplet("scy", Or(p["scy"], If(e.scheme = "vmess", p["cipher"])))
           passed == [x \in {"plugin-opts"} |-> p[x]]
           kept == [x \in UriKeys |-> p[x]]
           toggle == translated_toggle(e.scheme, p)
           security == translated_security(e.scheme, p)
<1>1. q = Params(toggle ++ security ++ flat ++ passed ++ kept)
  BY DEF canonical_uri_entry, IsEntry
<1>2. n \in {"net", "type"}
  BY DEF network_key
<1>3. \A k : k \in DOMAIN flat <=> k \in Flat
  BY DomOver, DomMaplet
<1>4. /\ Read(flat, n) = network_of(e)
      /\ Read(flat, "sni") = Or(p["sni"], p["servername"])
      /\ Read(flat, "path") = Or(p["path"], Or(p["ws-opts.path"], Or(p["h2-opts.path"], p["http-opts.path"])))
      /\ Read(flat, "host") = Or(p["host"], Or(p["ws-opts.host"], Or(p["h2-opts.host"], p["http-opts.host"])))
      /\ Read(flat, "servicename") = Or(p["servicename"], p["grpc-opts.service"])
      /\ Read(flat, "fp") = Or(p["fp"], p["client-fingerprint"])
      /\ Read(flat, "pbk") = reality_public_key(p) /\ Read(flat, "sid") = reality_short_id(p)
      /\ Read(flat, "scy") = Or(p["scy"], If(e.scheme = "vmess", p["cipher"]))
  BY <1>2, ReadOver, ReadMaplet, DomOver, DomMaplet
<1>5. DOMAIN passed = {"plugin-opts"} /\ Read(passed, "plugin-opts") = p["plugin-opts"]
  BY DEF Read
<1>6. DOMAIN kept = UriKeys /\ \A k \in UriKeys : Read(kept, k) = p[k]
  BY DEF Read
<1>7. /\ DOMAIN toggle = IF is_truthy_toggle(p["skip-cert-verify"]) THEN DOMAIN toggle_key(e.scheme) ELSE {}
      /\ DOMAIN toggle_key(e.scheme) \subseteq {"insecure", "allowinsecure"}
      /\ \A k \in DOMAIN toggle : Read(toggle, k) = "1"
  BY NothingPut, MapletKey DEF translated_toggle, toggle_key, Read
<1>8. /\ DOMAIN security = IF e.scheme \in TlsFamily THEN {"tls", "security"} ELSE IF e.scheme = "vmess" THEN {"tls"} ELSE {}
      /\ e.scheme \in TlsFamily =>
                  /\ Read(security, "tls") = Absent
                  /\ Read(security, "security") = IF reality_public_key(p) # Absent THEN "reality"
                                     ELSE Or(p["security"], If(TlsStated(p), "tls"))
      /\ e.scheme = "vmess" => Read(security, "tls") = If(TlsStated(p), "tls")
  <2>0. "vmess" \notin TlsFamily
    BY DEF TlsFamily
  <2>1. CASE e.scheme \in TlsFamily
    <3> DEFINE secured == IF reality_public_key(p) # Absent THEN "reality" ELSE Or(p["security"], If(TlsStated(p), "tls"))
    <3>1. security = Maplet("tls", Absent) ++ Maplet("security", secured)
      BY <2>1 DEF translated_security
    <3> HIDE DEF secured
    <3>2. /\ \A k : k \in DOMAIN security <=> k \in {"tls", "security"}
          /\ Read(security, "tls") = Absent /\ Read(security, "security") = secured
      BY <3>1, ReadOver, ReadMaplet, DomOver, DomMaplet
    <3>3. DOMAIN security = {"tls", "security"}
      BY <2>1, <3>1, <3>2, DomainOver
    <3> QED  BY <2>0, <2>1, <3>2, <3>3 DEF secured
  <2>2. CASE e.scheme = "vmess"
    <3>1. security = Maplet("tls", If(TlsStated(p), "tls"))
      BY <2>0, <2>2 DEF translated_security
    <3> QED  BY <2>0, <2>2, <3>1, ReadMaplet, MapletDomain
  <2>3. CASE e.scheme \notin TlsFamily \cup {"vmess"}
    BY <2>3, NothingPut DEF translated_security
  <2> QED  BY <2>1, <2>2, <2>3
<1> HIDE DEF flat, passed, kept, toggle, security
<1>9. \A k \in ParamKeys :
        q[k] = IF k \in DOMAIN toggle THEN Read(toggle, k) ELSE IF k \in DOMAIN security THEN Read(security, k)
               ELSE IF k \in DOMAIN flat THEN Read(flat, k) ELSE IF k \in DOMAIN passed THEN Read(passed, k) ELSE Read(kept, k)
  BY <1>1, ReadParams, ReadOver, DomOver
<1> HIDE DEF q
<1>10. "vmess" \notin TlsFamily
  BY DEF TlsFamily
<1>11. \A k \in Flat : k \in ParamKeys /\ q[k] = Read(flat, k)
  BY <1>2, <1>3, <1>7, <1>8, <1>9 DEF ParamKeys, UriKeys, ClashKeys
<1>12. \A k \in UriKeys \ (Flat \cup {"tls", "security", "insecure", "allowinsecure"}) : q[k] = p[k]
  BY <1>3, <1>5, <1>6, <1>7, <1>8, <1>9 DEF ParamKeys, UriKeys, ClashKeys
<1>13. \A k \in ClashKeys : q[k] = IF k = "plugin-opts" THEN p[k] ELSE Absent
  <2> SUFFICES ASSUME NEW k \in ClashKeys PROVE q[k] = IF k = "plugin-opts" THEN p[k] ELSE Absent
    OBVIOUS
  <2>1. k \notin UriKeys /\ k \in ParamKeys
    BY DEF ClashKeys, UriKeys, ParamKeys
  <2>2. k \notin DOMAIN toggle /\ k \notin DOMAIN security
    BY <2>1, <1>7, <1>8 DEF UriKeys
  <2>3. k \notin DOMAIN flat
    BY <2>1, <1>2, <1>3 DEF UriKeys
  <2>4. k \notin DOMAIN kept
    BY <2>1, <1>6
  <2> QED BY <2>1, <2>2, <2>3, <2>4, <1>5, <1>9 DEF Read
<1>14. \A k \in {"tls", "security"} : q[k] = IF k \in DOMAIN security THEN Read(security, k) ELSE p[k]
  BY <1>2, <1>3, <1>5, <1>6, <1>7, <1>9 DEF ParamKeys, UriKeys, ClashKeys
<1>15. \A k \in {"insecure", "allowinsecure"} : q[k] = IF k \in DOMAIN toggle THEN "1" ELSE p[k]
  BY <1>2, <1>3, <1>5, <1>6, <1>7, <1>8, <1>9 DEF ParamKeys, UriKeys, ClashKeys
<1>16. "plugin-opts" \in ClashKeys
  BY DEF ClashKeys
<1>17. \A k \in {"insecure", "allowinsecure"} :
          q[k] = IF is_truthy_toggle(p["skip-cert-verify"]) /\ k \in DOMAIN toggle_key(e.scheme) THEN "1" ELSE p[k]
  BY <1>7, <1>15
<1>18. /\ e.scheme \in TlsFamily =>
                  /\ q["tls"] = Absent
                  /\ q["security"] = IF reality_public_key(p) # Absent THEN "reality"
                                     ELSE Or(p["security"], If(TlsStated(p), "tls"))
       /\ e.scheme = "vmess" => q["tls"] = If(TlsStated(p), "tls") /\ q["security"] = p["security"]
       /\ e.scheme \notin TlsFamily \cup {"vmess"} => q["tls"] = p["tls"] /\ q["security"] = p["security"]
  BY <1>8, <1>10, <1>14
<1>19. \A k \in UriKeys \ {n, "sni", "path", "host", "servicename", "fp", "pbk", "sid", "scy",
                                    "tls", "security", "insecure", "allowinsecure"} : q[k] = p[k]
  BY <1>12
<1>20. \A k \in ClashKeys \ {"plugin-opts"} : q[k] = Absent
  BY <1>13
<1>21. q["plugin-opts"] = p["plugin-opts"]
  BY <1>13, <1>16
<1>22. \A k \in Flat : q[k] = Read(flat, k)
  BY <1>11
<1> HIDE DEF p, n
<1>23. /\ q[n] = network_of(e)
       /\ q["sni"] = Or(p["sni"], p["servername"])
       /\ q["path"] = Or(p["path"], Or(p["ws-opts.path"], Or(p["h2-opts.path"], p["http-opts.path"])))
       /\ q["host"] = Or(p["host"], Or(p["ws-opts.host"], Or(p["h2-opts.host"], p["http-opts.host"])))
       /\ q["servicename"] = Or(p["servicename"], p["grpc-opts.service"])
       /\ q["fp"] = Or(p["fp"], p["client-fingerprint"])
       /\ q["pbk"] = reality_public_key(p) /\ q["sid"] = reality_short_id(p)
       /\ q["scy"] = Or(p["scy"], If(e.scheme = "vmess", p["cipher"]))
  BY <1>4, <1>22
<1> QED  BY <1>17, <1>18, <1>19, <1>20, <1>21, <1>23 DEF p, n, q

(* The Clash writer, field by field.                                        *)
LEMMA TransportTable ==
  ASSUME NEW e, network_of(e) \in Networks
  PROVE  LET p == e.params
             t == put_transport(e)
             net == network_of(e)
             h2 == net = "h2" \/ (net = "http" /\ e.scheme # "vmess")
             http == net = "http" /\ e.scheme = "vmess"
         IN  /\ Read(t, "network") = IF net \in {Absent, "tcp"} THEN Absent ELSE IF h2 THEN "h2" ELSE net
             /\ Read(t, "ws-opts.path") = If(net = "ws", Or(p["path"], p["ws-opts.path"]))
             /\ Read(t, "ws-opts.host") = If(net = "ws", Or(p["host"], p["ws-opts.host"]))
             /\ Read(t, "grpc-opts.service") =
                   If(net = "grpc", Or(p["servicename"], Or(p["grpc-opts.service"], If(e.scheme = "vmess", p["path"]))))
             /\ Read(t, "h2-opts.path") = If(h2, Or(p["path"], p["h2-opts.path"]))
             /\ Read(t, "h2-opts.host") = If(h2, Or(p["host"], p["h2-opts.host"]))
             /\ Read(t, "http-opts.path") = If(http, p["path"])
             /\ Read(t, "http-opts.host") = If(http, p["host"])
<1> DEFINE p == e.params
           t == put_transport(e)
           net == network_of(e)
           service == Or(p["servicename"], Or(p["grpc-opts.service"], If(e.scheme = "vmess", p["path"])))
<1>1. CASE net \in {Absent, "tcp"}
  <2>1. t = << >>
    BY <1>1, AbsentIsNothing DEF put_transport, Networks
  <2> HIDE DEF t
  <2> QED  BY <1>1, <2>1, ReadNothing, AbsentIsNothing DEF If, t
<1>2. CASE net = "ws"
  <2>1. t = Maplet("network", "ws") ++ Maplet("ws-opts.path", Or(p["path"], p["ws-opts.path"]))
                           ++ Maplet("ws-opts.host", Or(p["host"], p["ws-opts.host"]))
    BY <1>2, AbsentIsNothing DEF put_transport, Networks
  <2> HIDE DEF t
  <2> QED  BY <1>2, <2>1, ReadOver, ReadMaplet, DomOver, DomMaplet, AbsentIsNothing DEF If, t
<1>3. CASE net = "grpc"
  <2>1. t = Maplet("network", "grpc") ++ Maplet("grpc-opts.service", service)
    BY <1>3, AbsentIsNothing DEF put_transport, Networks
  <2> HIDE DEF t
  <2> QED  BY <1>3, <2>1, ReadOver, ReadMaplet, DomOver, DomMaplet, AbsentIsNothing DEF If, t
<1>4. CASE net = "http" /\ e.scheme = "vmess"
  <2>1. t = Maplet("network", "http") ++ Maplet("http-opts.path", p["path"]) ++ Maplet("http-opts.host", p["host"])
    BY <1>4, AbsentIsNothing DEF put_transport, Networks
  <2> HIDE DEF t
  <2> QED  BY <1>4, <2>1, ReadOver, ReadMaplet, DomOver, DomMaplet, AbsentIsNothing DEF If, t
<1>5. CASE net = "h2" \/ (net = "http" /\ e.scheme # "vmess")
  <2>1. t = Maplet("network", "h2") ++ Maplet("h2-opts.path", Or(p["path"], p["h2-opts.path"]))
                           ++ Maplet("h2-opts.host", Or(p["host"], p["h2-opts.host"]))
    BY <1>5, AbsentIsNothing DEF put_transport, Networks
  <2> HIDE DEF t
  <2> QED  BY <1>5, <2>1, ReadOver, ReadMaplet, DomOver, DomMaplet, AbsentIsNothing DEF If, t
<1> QED  BY <1>1, <1>2, <1>3, <1>4, <1>5 DEF Networks

LEMMA BlockKeySet ==
  BlockKeys = {"ws-opts.path", "ws-opts.host", "grpc-opts.service",
                "h2-opts.path", "h2-opts.host", "http-opts.path", "http-opts.host"}
BY DEF BlockKeys, Blocks

LEMMA ClashSkips ==
  ASSUME NEW p, NEW fields, "skip-cert-verify" \notin DOMAIN fields
  PROVE  LET f == Params(Maplet("skip-cert-verify", If(is_insecure(p), "true")) ++ fields)
         IN  /\ f["skip-cert-verify"] = If(is_insecure(p), "true")
             /\ \A k \in ParamKeys \ {"skip-cert-verify"} : f[k] = Read(fields, k)
<1>1. "skip-cert-verify" \in ParamKeys
  BY DEF ParamKeys, ClashKeys
<1> QED  BY <1>1, ReadParams, ReadOver, ReadMaplet, DomMaplet

LEMMA ClashVless ==
  ASSUME NEW e, e.scheme = "vless", network_of(e) \in Networks
  PROVE  LET p == e.params
             f == entry_to_clash(e)
             on == SecurityIs(p, "tls") \/ SecurityIs(p, "reality") \/ is_truthy_toggle(p["tls"])
         IN  /\ f["skip-cert-verify"] = If(is_insecure(p), "true")
             /\ f["tls"] = If(on, "true") /\ f["servername"] = If(on, Or(p["servername"], p["sni"]))
             /\ f["flow"] = p["flow"] /\ f["client-fingerprint"] = p["fp"] /\ f["alpn"] = p["alpn"]
             /\ f["reality-opts.public-key"] = reality_public_key(p) /\ f["reality-opts.short-id"] = reality_short_id(p)
             /\ \A k \in {"network"} \cup BlockKeys : f[k] = Read(put_transport(e), k)
             /\ \A k \in ParamKeys \ ClashWords("vless") : f[k] = Absent
<1> DEFINE p == e.params
           f == entry_to_clash(e)
           on == SecurityIs(p, "tls") \/ SecurityIs(p, "reality") \/ is_truthy_toggle(p["tls"])
           t == put_transport(e)
           Own == {"tls", "servername", "flow", "client-fingerprint", "reality-opts.public-key", "reality-opts.short-id", "alpn"}
           fields == Maplet("tls", If(on, "true")) ++ Maplet("servername", If(on, Or(p["servername"], p["sni"])))
                     ++ Maplet("flow", p["flow"]) ++ Maplet("client-fingerprint", p["fp"])
                     ++ (Maplet("reality-opts.public-key", reality_public_key(p)) ++ Maplet("reality-opts.short-id", reality_short_id(p)))
                     ++ Maplet("alpn", p["alpn"]) 
<1>1. f = Params(Maplet("skip-cert-verify", If(is_insecure(p), "true")) ++ (fields ++ t))
  BY DEF entry_to_clash, clash_vless, clash_server, put_reality_opts
<1> HIDE DEF f, t
<1>2. /\ \A k : k \in DOMAIN fields <=> k \in Own
      /\ Read(fields, "tls") = If(on, "true") /\ Read(fields, "servername") = If(on, Or(p["servername"], p["sni"]))
      /\ Read(fields, "flow") = p["flow"] /\ Read(fields, "client-fingerprint") = p["fp"] /\ Read(fields, "alpn") = p["alpn"]
      /\ Read(fields, "reality-opts.public-key") = reality_public_key(p)
      /\ Read(fields, "reality-opts.short-id") = reality_short_id(p)
  BY ReadOver, ReadMaplet, DomOver, DomMaplet
<1> HIDE DEF fields
<1>3. \A k \in DOMAIN t : k \in {"network"} \cup BlockKeys
  BY TransportKeys, BlockKeySet DEF t
<1>4. "skip-cert-verify" \notin DOMAIN (fields ++ t)
  BY <1>2, <1>3, BlockKeySet, DomOver
<1>5. /\ f["skip-cert-verify"] = If(is_insecure(p), "true")
      /\ \A k \in ParamKeys \ {"skip-cert-verify"} : f[k] = IF k \in DOMAIN fields THEN Read(fields, k) ELSE Read(t, k)
  BY <1>1, <1>4, ClashSkips, ReadOver
<1>6. ClashWords("vless") = Own \cup {"skip-cert-verify", "network"} \cup BlockKeys
  BY DEF ClashWords
<1>7. Own \cup {"network"} \cup BlockKeys \subseteq ParamKeys \ {"skip-cert-verify"}
  BY BlockKeySet DEF ParamKeys, UriKeys, ClashKeys
<1>8. \A k \in Own : k \notin {"network"} \cup BlockKeys
  BY BlockKeySet
<1>9. \A k \in ParamKeys \ ClashWords("vless") : f[k] = Absent
  BY <1>2, <1>3, <1>5, <1>6 DEF Read
<1>10. \A k \in {"network"} \cup BlockKeys : f[k] = Read(t, k)
  BY <1>2, <1>5, <1>7, <1>8
<1>11. \A k \in Own : f[k] = Read(fields, k)
  BY <1>2, <1>5, <1>7
<1> QED  BY <1>2, <1>5, <1>9, <1>10, <1>11 DEF f, t

LEMMA ClashVmess ==
  ASSUME NEW e, e.scheme = "vmess", network_of(e) \in Networks
  PROVE  LET p == e.params
             f == entry_to_clash(e)
             on == TlsStated(p) \/ SecurityIs(p, "tls")
         IN  /\ f["skip-cert-verify"] = If(is_insecure(p), "true")
             /\ f["tls"] = If(on, "true")
             /\ f["servername"] = If(on, Or(p["servername"], p["sni"]))
             /\ f["cipher"] = Or(p["scy"], Or(p["cipher"], "auto"))
             /\ f["client-fingerprint"] = Or(p["client-fingerprint"], p["fp"])
             /\ f["alpn"] = p["alpn"]
             /\ \A k \in {"network"} \cup BlockKeys : f[k] = Read(put_transport(e), k)
             /\ \A k \in ParamKeys \ ClashWords("vmess") : f[k] = Absent
<1> DEFINE p == e.params
           f == entry_to_clash(e)
           on == TlsStated(p) \/ SecurityIs(p, "tls")
           t == put_transport(e)
           Own == {"tls", "servername", "cipher", "client-fingerprint", "alpn"}
           fields == Maplet("tls", If(on, "true")) ++ Maplet("servername", If(on, Or(p["servername"], p["sni"]))) ++ Maplet("cipher", Or(p["scy"], Or(p["cipher"], "auto"))) ++ Maplet("client-fingerprint", Or(p["client-fingerprint"], p["fp"])) ++ Maplet("alpn", p["alpn"])
<1>1. f = Params(Maplet("skip-cert-verify", If(is_insecure(p), "true")) ++ (fields ++ t))
  BY DEF entry_to_clash, clash_vmess, clash_server
<1> HIDE DEF f, t
<1>2. /\ \A k : k \in DOMAIN fields <=> k \in Own
      /\ Read(fields, "tls") = If(on, "true")
      /\ Read(fields, "servername") = If(on, Or(p["servername"], p["sni"]))
      /\ Read(fields, "cipher") = Or(p["scy"], Or(p["cipher"], "auto"))
      /\ Read(fields, "client-fingerprint") = Or(p["client-fingerprint"], p["fp"])
      /\ Read(fields, "alpn") = p["alpn"]
  BY ReadOver, ReadMaplet, DomOver, DomMaplet
<1> HIDE DEF fields
<1>3. \A k \in DOMAIN t : k \in {"network"} \cup BlockKeys
  BY TransportKeys, BlockKeySet DEF t
<1>4. "skip-cert-verify" \notin DOMAIN (fields ++ t)
  BY <1>2, <1>3, BlockKeySet, DomOver
<1>5. /\ f["skip-cert-verify"] = If(is_insecure(p), "true")
      /\ \A k \in ParamKeys \ {"skip-cert-verify"} : f[k] = IF k \in DOMAIN fields THEN Read(fields, k) ELSE Read(t, k)
  BY <1>1, <1>4, ClashSkips, ReadOver
<1>6. ClashWords("vmess") = Own \cup {"skip-cert-verify", "network"} \cup BlockKeys
  BY DEF ClashWords
<1>7. Own \cup {"network"} \cup BlockKeys \subseteq ParamKeys \ {"skip-cert-verify"}
  BY BlockKeySet DEF ParamKeys, UriKeys, ClashKeys
<1>8. \A k \in Own : k \notin {"network"} \cup BlockKeys
  BY BlockKeySet
<1>9. \A k \in ParamKeys \ ClashWords("vmess") : f[k] = Absent
  BY <1>2, <1>3, <1>5, <1>6 DEF Read
<1>10. \A k \in {"network"} \cup BlockKeys : f[k] = Read(t, k)
  BY <1>2, <1>5, <1>7, <1>8
<1>11. \A k \in Own : f[k] = Read(fields, k)
  BY <1>2, <1>5, <1>7
<1> QED  BY <1>2, <1>5, <1>9, <1>10, <1>11 DEF f, t

LEMMA ClashTrojan ==
  ASSUME NEW e, e.scheme = "trojan", network_of(e) \in Networks
  PROVE  LET p == e.params
             f == entry_to_clash(e)
         IN  /\ f["skip-cert-verify"] = If(is_insecure(p), "true")
             /\ f["sni"] = p["sni"]
             /\ f["flow"] = p["flow"]
             /\ f["client-fingerprint"] = p["fp"]
             /\ f["reality-opts.public-key"] = reality_public_key(p)
             /\ f["reality-opts.short-id"] = reality_short_id(p)
             /\ f["alpn"] = p["alpn"]
             /\ \A k \in {"network"} \cup BlockKeys : f[k] = Read(put_transport(e), k)
             /\ \A k \in ParamKeys \ ClashWords("trojan") : f[k] = Absent
<1> DEFINE p == e.params
           f == entry_to_clash(e)
           t == put_transport(e)
           Own == {"sni", "flow", "client-fingerprint", "reality-opts.public-key", "reality-opts.short-id", "alpn"}
           fields == Maplet("sni", p["sni"]) ++ Maplet("flow", p["flow"]) ++ Maplet("client-fingerprint", p["fp"]) ++ (Maplet("reality-opts.public-key", reality_public_key(p)) ++ Maplet("reality-opts.short-id", reality_short_id(p))) ++ Maplet("alpn", p["alpn"])
<1>1. f = Params(Maplet("skip-cert-verify", If(is_insecure(p), "true")) ++ (fields ++ t))
  BY DEF entry_to_clash, clash_trojan, put_reality_opts
<1> HIDE DEF f, t
<1>2. /\ \A k : k \in DOMAIN fields <=> k \in Own
      /\ Read(fields, "sni") = p["sni"]
      /\ Read(fields, "flow") = p["flow"]
      /\ Read(fields, "client-fingerprint") = p["fp"]
      /\ Read(fields, "reality-opts.public-key") = reality_public_key(p)
      /\ Read(fields, "reality-opts.short-id") = reality_short_id(p)
      /\ Read(fields, "alpn") = p["alpn"]
  BY ReadOver, ReadMaplet, DomOver, DomMaplet
<1> HIDE DEF fields
<1>3. \A k \in DOMAIN t : k \in {"network"} \cup BlockKeys
  BY TransportKeys, BlockKeySet DEF t
<1>4. "skip-cert-verify" \notin DOMAIN (fields ++ t)
  BY <1>2, <1>3, BlockKeySet, DomOver
<1>5. /\ f["skip-cert-verify"] = If(is_insecure(p), "true")
      /\ \A k \in ParamKeys \ {"skip-cert-verify"} : f[k] = IF k \in DOMAIN fields THEN Read(fields, k) ELSE Read(t, k)
  BY <1>1, <1>4, ClashSkips, ReadOver
<1>6. ClashWords("trojan") = Own \cup {"skip-cert-verify", "network"} \cup BlockKeys
  BY DEF ClashWords
<1>7. Own \cup {"network"} \cup BlockKeys \subseteq ParamKeys \ {"skip-cert-verify"}
  BY BlockKeySet DEF ParamKeys, UriKeys, ClashKeys
<1>8. \A k \in Own : k \notin {"network"} \cup BlockKeys
  BY BlockKeySet
<1>9. \A k \in ParamKeys \ ClashWords("trojan") : f[k] = Absent
  BY <1>2, <1>3, <1>5, <1>6 DEF Read
<1>10. \A k \in {"network"} \cup BlockKeys : f[k] = Read(t, k)
  BY <1>2, <1>5, <1>7, <1>8
<1>11. \A k \in Own : f[k] = Read(fields, k)
  BY <1>2, <1>5, <1>7
<1> QED  BY <1>2, <1>5, <1>9, <1>10, <1>11 DEF f, t

LEMMA ClashHysteria2 ==
  ASSUME NEW e, e.scheme = "hysteria2"
  PROVE  LET p == e.params
             f == entry_to_clash(e)
         IN  /\ f["skip-cert-verify"] = If(is_insecure(p), "true")
             /\ f["sni"] = p["sni"]
             /\ f["obfs"] = p["obfs"]
             /\ f["obfs-password"] = p["obfs-password"]
             /\ f["alpn"] = p["alpn"]
             /\ \A k \in ParamKeys \ ClashWords("hysteria2") : f[k] = Absent
<1> DEFINE p == e.params
           f == entry_to_clash(e)
           Own == {"sni", "obfs", "obfs-password", "alpn"}
           fields == Maplet("sni", p["sni"]) ++ Maplet("obfs", p["obfs"]) ++ Maplet("obfs-password", p["obfs-password"]) ++ Maplet("alpn", p["alpn"])
<1>1. f = Params(Maplet("skip-cert-verify", If(is_insecure(p), "true")) ++ fields)
  BY DEF entry_to_clash, clash_hysteria2
<1> HIDE DEF f
<1>2. /\ \A k : k \in DOMAIN fields <=> k \in Own
      /\ Read(fields, "sni") = p["sni"]
      /\ Read(fields, "obfs") = p["obfs"]
      /\ Read(fields, "obfs-password") = p["obfs-password"]
      /\ Read(fields, "alpn") = p["alpn"]
  BY ReadOver, ReadMaplet, DomOver, DomMaplet
<1> HIDE DEF fields
<1>5. /\ f["skip-cert-verify"] = If(is_insecure(p), "true")
      /\ \A k \in ParamKeys \ {"skip-cert-verify"} : f[k] = Read(fields, k)
  BY <1>1, <1>2, ClashSkips
<1>6. ClashWords("hysteria2") = Own \cup {"skip-cert-verify"}
  BY DEF ClashWords
<1>7. Own \subseteq ParamKeys \ {"skip-cert-verify"}
  BY DEF ParamKeys, UriKeys, ClashKeys
<1>9. \A k \in ParamKeys \ ClashWords("hysteria2") : f[k] = Absent
  BY <1>2, <1>5, <1>6 DEF Read
<1>11. \A k \in Own : f[k] = Read(fields, k)
  BY <1>5, <1>7
<1> QED  BY <1>2, <1>5, <1>9, <1>11 DEF f

LEMMA ClashSocks5 ==
  ASSUME NEW e, e.scheme = "socks5"
  PROVE  LET p == e.params
             f == entry_to_clash(e)
         IN  /\ f["skip-cert-verify"] = If(is_insecure(p), "true")
             /\ f["tls"] = If(is_truthy_toggle(p["tls"]), "true")
             /\ \A k \in ParamKeys \ ClashWords("socks5") : f[k] = Absent
<1> DEFINE p == e.params
           f == entry_to_clash(e)
           Own == {"tls"}
           fields == Maplet("tls", If(is_truthy_toggle(p["tls"]), "true"))
<1>1. f = Params(Maplet("skip-cert-verify", If(is_insecure(p), "true")) ++ fields)
  BY DEF entry_to_clash, clash_hysteria2
<1> HIDE DEF f
<1>2. /\ \A k : k \in DOMAIN fields <=> k \in Own
      /\ Read(fields, "tls") = If(is_truthy_toggle(p["tls"]), "true")
  BY ReadOver, ReadMaplet, DomOver, DomMaplet
<1> HIDE DEF fields
<1>5. /\ f["skip-cert-verify"] = If(is_insecure(p), "true")
      /\ \A k \in ParamKeys \ {"skip-cert-verify"} : f[k] = Read(fields, k)
  BY <1>1, <1>2, ClashSkips
<1>6. ClashWords("socks5") = Own \cup {"skip-cert-verify"}
  BY DEF ClashWords
<1>7. Own \subseteq ParamKeys \ {"skip-cert-verify"}
  BY DEF ParamKeys, UriKeys, ClashKeys
<1>9. \A k \in ParamKeys \ ClashWords("socks5") : f[k] = Absent
  BY <1>2, <1>5, <1>6 DEF Read
<1>11. \A k \in Own : f[k] = Read(fields, k)
  BY <1>5, <1>7
<1> QED  BY <1>2, <1>5, <1>9, <1>11 DEF f

LEMMA ClashAnytls ==
  ASSUME NEW e, e.scheme = "anytls"
  PROVE  LET p == e.params
             f == entry_to_clash(e)
         IN  /\ f["skip-cert-verify"] = If(is_insecure(p), "true")
             /\ f["sni"] = p["sni"]
             /\ \A k \in ParamKeys \ ClashWords("anytls") : f[k] = Absent
<1> DEFINE p == e.params
           f == entry_to_clash(e)
           Own == {"sni"}
           fields == Maplet("sni", p["sni"])
<1>1. f = Params(Maplet("skip-cert-verify", If(is_insecure(p), "true")) ++ fields)
  BY DEF entry_to_clash, clash_hysteria2
<1> HIDE DEF f
<1>2. /\ \A k : k \in DOMAIN fields <=> k \in Own
      /\ Read(fields, "sni") = p["sni"]
  BY ReadOver, ReadMaplet, DomOver, DomMaplet
<1> HIDE DEF fields
<1>5. /\ f["skip-cert-verify"] = If(is_insecure(p), "true")
      /\ \A k \in ParamKeys \ {"skip-cert-verify"} : f[k] = Read(fields, k)
  BY <1>1, <1>2, ClashSkips
<1>6. ClashWords("anytls") = Own \cup {"skip-cert-verify"}
  BY DEF ClashWords
<1>7. Own \subseteq ParamKeys \ {"skip-cert-verify"}
  BY DEF ParamKeys, UriKeys, ClashKeys
<1>9. \A k \in ParamKeys \ ClashWords("anytls") : f[k] = Absent
  BY <1>2, <1>5, <1>6 DEF Read
<1>11. \A k \in Own : f[k] = Read(fields, k)
  BY <1>5, <1>7
<1> QED  BY <1>2, <1>5, <1>9, <1>11 DEF f

LEMMA ClashSs ==
  ASSUME NEW e, e.scheme = "ss"
  PROVE  LET p == e.params
             f == entry_to_clash(e)
         IN  /\ f["skip-cert-verify"] = If(is_insecure(p), "true")
             /\ \A k \in ParamKeys \ ClashWords("ss") : f[k] = Absent
<1> DEFINE p == e.params
           f == entry_to_clash(e)
           fields == put_ss_plugin(p)
<1>1. f = Params(Maplet("skip-cert-verify", If(is_insecure(p), "true")) ++ fields)
  BY DEF entry_to_clash
<1>2. \A k \in DOMAIN fields : k \in {"plugin", "plugin-opts"}
  BY DomOver, DomMaplet DEF put_ss_plugin
<1> HIDE DEF f, fields
<1>3. /\ f["skip-cert-verify"] = If(is_insecure(p), "true")
      /\ \A k \in ParamKeys \ {"skip-cert-verify"} : f[k] = Read(fields, k)
  BY <1>1, <1>2, ClashSkips
<1>4. ClashWords("ss") = {"skip-cert-verify", "plugin", "plugin-opts"}
  BY DEF ClashWords
<1> QED  BY <1>2, <1>3, <1>4 DEF f, Read

(* The sing-box outbound and its native reading, field by field.            *)
LEMMA NativeTransport ==
  ASSUME NEW e, NEW key \in {"type", "net"}, network_of(e) \in Networks
  PROVE  LET p == e.params
             t == native_transport_params(transport_object(e), key)
             net == network_of(e)
             http == net \in {"h2", "http"}
         IN  /\ \A k \in DOMAIN t : k \in {key, "path", "host", "servicename"}
             /\ Read(t, key) = IF net \in {Absent, "tcp"} THEN Absent ELSE IF http THEN "http" ELSE net
             /\ Read(t, "path") = If(net = "ws" \/ http, p["path"]) /\ Read(t, "host") = If(net = "ws" \/ http, p["host"])
             /\ Read(t, "servicename") = If(net = "grpc", Or(p["servicename"], If(e.scheme = "vmess", p["path"])))
<1> DEFINE p == e.params
           o == transport_object(e)
           t == native_transport_params(o, key)
           net == network_of(e)
           service == Or(p["servicename"], If(e.scheme = "vmess", p["path"]))
<1>1. CASE net \in {Absent, "tcp"}
  <2>1. o.type = Absent
    BY <1>1, AbsentIsNothing DEF transport_object, Networks
  <2>2. t = << >>
    BY <2>1, AbsentIsNothing DEF native_transport_params
  <2> HIDE DEF t
  <2> QED  BY <1>1, <2>2, NothingPut, ReadNothing, AbsentIsNothing DEF If, t
<1>2. CASE net = "ws" \/ net \in {"h2", "http"}
  <2> DEFINE type == IF net = "ws" THEN "ws" ELSE "http"
  <2>1. o.type = type /\ o.path = p["path"] /\ o.host = p["host"]
    BY <1>2, AbsentIsNothing DEF transport_object, Networks
  <2>2. t = Maplet(key, type) ++ Maplet("path", p["path"]) ++ Maplet("host", p["host"])
    BY <2>1, AbsentIsNothing DEF native_transport_params
  <2> HIDE DEF t
  <2> QED  BY <1>2, <2>2, ReadOver, ReadMaplet, DomOver, DomMaplet, AbsentIsNothing DEF If, t
<1>3. CASE net = "grpc"
  <2>1. o.type = "grpc" /\ o.service = service
    BY <1>3, AbsentIsNothing DEF transport_object, Networks
  <2>2. t = Maplet(key, "grpc") ++ Maplet("servicename", service)
    BY <2>1, AbsentIsNothing DEF native_transport_params
  <2> HIDE DEF t
  <2> QED  BY <1>3, <2>2, ReadOver, ReadMaplet, DomOver, DomMaplet, AbsentIsNothing DEF If, t
<1> QED  BY <1>1, <1>2, <1>3 DEF Networks

LEMMA NativeTls ==
  ASSUME NEW p, NEW reality \in BOOLEAN, NEW security \in {"security", "tls"}
  PROVE  LET o == tls_object(p, reality)
             t == native_tls_params(o, security)
         IN  /\ \A k : k \in DOMAIN t <=> k \in {security, "pbk", "sid", "sni", "alpn", "fp", "insecure"}
             /\ Read(t, security) = IF security = "security" /\ reality
                                          /\ (reality_public_key(p) # Absent \/ reality_short_id(p) # Absent)
                                    THEN "reality" ELSE "tls"
             /\ Read(t, "pbk") = If(reality, reality_public_key(p)) /\ Read(t, "sid") = If(reality, reality_short_id(p))
             /\ Read(t, "sni") = Or(p["sni"], p["servername"]) /\ Read(t, "alpn") = p["alpn"] /\ Read(t, "fp") = p["fp"]
             /\ Read(t, "insecure") = If(is_insecure(p), "true")
<1> DEFINE o == tls_object(p, reality)
           t == native_tls_params(o, security)
           stated == IF (o.pbk # Absent \/ o.sid # Absent) /\ security = "security" THEN "reality" ELSE "tls"
<1>1. /\ o.on = TRUE /\ o.pbk = If(reality, reality_public_key(p)) /\ o.sid = If(reality, reality_short_id(p))
      /\ o.sni = Or(p["sni"], p["servername"]) /\ o.alpn = p["alpn"] /\ o.fp = p["fp"]
      /\ If(o.insecure, "true") = If(is_insecure(p), "true")
  BY DEF tls_object, sni_of
<1>2. t = Maplet(security, stated)
         ++ Maplet("pbk", o.pbk) ++ Maplet("sid", o.sid) ++ Maplet("sni", o.sni) ++ Maplet("alpn", o.alpn)
         ++ Maplet("fp", o.fp) ++ Maplet("insecure", If(o.insecure, "true"))
  BY <1>1 DEF native_tls_params
<1> HIDE DEF t, o, stated
<1>3. /\ \A k : k \in DOMAIN t <=> k \in {security, "pbk", "sid", "sni", "alpn", "fp", "insecure"}
      /\ Read(t, security) = stated /\ Read(t, "pbk") = o.pbk /\ Read(t, "sid") = o.sid
      /\ Read(t, "sni") = o.sni /\ Read(t, "alpn") = o.alpn /\ Read(t, "fp") = o.fp
      /\ Read(t, "insecure") = If(o.insecure, "true")
  BY <1>2, ReadOver, ReadMaplet, DomOver, DomMaplet
<1>4. stated = IF security = "security" /\ reality
                                          /\ (reality_public_key(p) # Absent \/ reality_short_id(p) # Absent)
                                    THEN "reality" ELSE "tls"
  BY <1>1 DEF stated, If
<1> QED  BY <1>1, <1>3, <1>4 DEF t, o

LEMMA SingboxVless ==
  ASSUME NEW e, e.scheme = "vless", network_of(e) \in Networks
  PROVE  LET p == e.params
             f == parse_outbound(e.scheme, entry_to_outbound(e))
             t == native_transport_params(transport_object(e), "type")
             reality == SecurityIs(p, "reality") \/ reality_public_key(p) # Absent
             on == reality \/ wants_tls(p)
         IN  /\ f["security"] = If(on, IF reality /\ (reality_public_key(p) # Absent \/ reality_short_id(p) # Absent)
                                       THEN "reality" ELSE "tls")
             /\ f["pbk"] = If(on /\ reality, reality_public_key(p)) /\ f["sid"] = If(on /\ reality, reality_short_id(p))
             /\ f["sni"] = If(on, Or(p["sni"], p["servername"])) /\ f["alpn"] = If(on, p["alpn"]) /\ f["fp"] = If(on, p["fp"])
             /\ f["insecure"] = If(on /\ is_insecure(p), "true") /\ f["flow"] = p["flow"]
             /\ \A k \in {"type", "path", "host", "servicename"} : f[k] = Read(t, k)
             /\ \A k \in ParamKeys \ {"security", "pbk", "sid", "sni", "alpn", "fp", "insecure", "flow",
                                       "type", "path", "host", "servicename"} : f[k] = Absent
<1> DEFINE p == e.params
           f == parse_outbound(e.scheme, entry_to_outbound(e))
           t == native_transport_params(transport_object(e), "type")
           reality == SecurityIs(p, "reality") \/ reality_public_key(p) # Absent
           on == reality \/ wants_tls(p)
           tls == IF on THEN tls_object(p, reality) ELSE NoTls
           s == native_tls_params(tls, "security")
           Tls == {"security", "pbk", "sid", "sni", "alpn", "fp", "insecure"}
<1>1. f = Params(Maplet("flow", p["flow"]) ++ s ++ t)
  BY DEF parse_outbound, entry_to_outbound, native_vless
<1>2. /\ \A k \in DOMAIN s : k \in Tls
      /\ Read(s, "security") = If(on, IF reality /\ (reality_public_key(p) # Absent \/ reality_short_id(p) # Absent)
                                      THEN "reality" ELSE "tls")
      /\ Read(s, "pbk") = If(on /\ reality, reality_public_key(p)) /\ Read(s, "sid") = If(on /\ reality, reality_short_id(p))
      /\ Read(s, "sni") = If(on, Or(p["sni"], p["servername"])) /\ Read(s, "alpn") = If(on, p["alpn"])
      /\ Read(s, "fp") = If(on, p["fp"]) /\ Read(s, "insecure") = If(on /\ is_insecure(p), "true")
  <2>1. CASE on
    <3>1. tls = tls_object(p, reality) /\ reality \in BOOLEAN
      BY <2>1
    <3> HIDE DEF tls, on, reality
    <3> QED  BY <2>1, <3>1, NativeTls DEF If
  <2>2. CASE ~on
    <3>1. s = << >>
      BY <2>2 DEF native_tls_params, NoTls
    <3> HIDE DEF s, on
    <3> QED  BY <2>2, <3>1, ReadNothing, NothingPut DEF If
  <2> QED  BY <2>1, <2>2
<1> HIDE DEF f, s, t, on, reality
<1>3. \A k \in DOMAIN t : k \in {"type", "path", "host", "servicename"}
  BY NativeTransport DEF t
<1>4. \A k \in ParamKeys : f[k] = IF k = "flow" THEN p["flow"] ELSE IF k \in DOMAIN s THEN Read(s, k) ELSE Read(t, k)
  BY <1>1, ReadParams, ReadOver, ReadMaplet, DomOver, DomMaplet
<1>5. Tls \cup {"flow", "type", "path", "host", "servicename"} \subseteq ParamKeys
  BY DEF ParamKeys, UriKeys
<1>6. \A k \in Tls : f[k] = Read(s, k)
  BY <1>3, <1>4, <1>5 DEF Read
<1>7. f["flow"] = p["flow"] /\ \A k \in {"type", "path", "host", "servicename"} : f[k] = Read(t, k)
  BY <1>2, <1>4, <1>5
<1>8. \A k \in ParamKeys \ (Tls \cup {"flow", "type", "path", "host", "servicename"}) : f[k] = Absent
  BY <1>2, <1>3, <1>4 DEF Read
<1> QED  BY <1>2, <1>6, <1>7, <1>8 DEF f, t, on, reality

LEMMA SingboxVmess ==
  ASSUME NEW e, e.scheme = "vmess", network_of(e) \in Networks
  PROVE  LET p == e.params
             f == parse_outbound(e.scheme, entry_to_outbound(e))
             t == native_transport_params(transport_object(e), "net")
             on == TlsStated(p) \/ SecurityIs(p, "tls")
         IN  /\ f["tls"] = If(on, "tls") /\ f["pbk"] = Absent /\ f["sid"] = Absent
             /\ f["sni"] = If(on, Or(p["sni"], p["servername"])) /\ f["alpn"] = If(on, p["alpn"]) /\ f["fp"] = If(on, p["fp"])
             /\ f["insecure"] = If(on /\ is_insecure(p), "true") /\ f["scy"] = Or(p["scy"], Or(p["cipher"], "auto"))
             /\ \A k \in {"net", "path", "host", "servicename"} : f[k] = Read(t, k)
             /\ \A k \in ParamKeys \ {"tls", "pbk", "sid", "sni", "alpn", "fp", "insecure", "scy",
                                       "net", "path", "host", "servicename"} : f[k] = Absent
<1> DEFINE p == e.params
           f == parse_outbound(e.scheme, entry_to_outbound(e))
           t == native_transport_params(transport_object(e), "net")
           on == TlsStated(p) \/ SecurityIs(p, "tls")
           tls == IF on THEN tls_object(p, FALSE) ELSE NoTls
           s == native_tls_params(tls, "tls")
           Tls == {"tls", "pbk", "sid", "sni", "alpn", "fp", "insecure"}
<1>1. f = Params(Maplet("scy", Or(p["scy"], Or(p["cipher"], "auto"))) ++ s ++ t)
  BY DEF parse_outbound, entry_to_outbound, native_vmess
<1>2. /\ \A k \in DOMAIN s : k \in Tls
      /\ Read(s, "tls") = If(on, "tls") /\ Read(s, "pbk") = Absent /\ Read(s, "sid") = Absent
      /\ Read(s, "sni") = If(on, Or(p["sni"], p["servername"])) /\ Read(s, "alpn") = If(on, p["alpn"])
      /\ Read(s, "fp") = If(on, p["fp"]) /\ Read(s, "insecure") = If(on /\ is_insecure(p), "true")
  <2>1. CASE on
    <3>1. tls = tls_object(p, FALSE)
      BY <2>1
    <3> HIDE DEF tls, on
    <3> QED  BY <2>1, <3>1, NativeTls DEF If
  <2>2. CASE ~on
    <3>1. s = << >>
      BY <2>2 DEF native_tls_params, NoTls
    <3> HIDE DEF s, on
    <3> QED  BY <2>2, <3>1, ReadNothing, NothingPut DEF If
  <2> QED  BY <2>1, <2>2
<1> HIDE DEF f, s, t, on
<1>3. \A k \in DOMAIN t : k \in {"net", "path", "host", "servicename"}
  BY NativeTransport DEF t
<1>4. \A k \in ParamKeys : f[k] = IF k = "scy" THEN Or(p["scy"], Or(p["cipher"], "auto")) ELSE IF k \in DOMAIN s THEN Read(s, k) ELSE Read(t, k)
  BY <1>1, ReadParams, ReadOver, ReadMaplet, DomOver, DomMaplet
<1>5. Tls \cup {"scy", "net", "path", "host", "servicename"} \subseteq ParamKeys
  BY DEF ParamKeys, UriKeys
<1>6. \A k \in Tls : f[k] = Read(s, k)
  BY <1>3, <1>4, <1>5 DEF Read
<1>7. f["scy"] = Or(p["scy"], Or(p["cipher"], "auto")) /\ \A k \in {"net", "path", "host", "servicename"} : f[k] = Read(t, k)
  BY <1>2, <1>4, <1>5
<1>8. \A k \in ParamKeys \ (Tls \cup {"scy", "net", "path", "host", "servicename"}) : f[k] = Absent
  BY <1>2, <1>3, <1>4 DEF Read
<1> QED  BY <1>2, <1>6, <1>7, <1>8 DEF f, t, on

LEMMA SingboxTrojan ==
  ASSUME NEW e, e.scheme = "trojan", network_of(e) \in Networks
  PROVE  LET p == e.params
             f == parse_outbound(e.scheme, entry_to_outbound(e))
             t == native_transport_params(transport_object(e), "type")
             reality == SecurityIs(p, "reality") \/ reality_public_key(p) # Absent
         IN  /\ f["security"] = (IF reality /\ (reality_public_key(p) # Absent \/ reality_short_id(p) # Absent)
                                THEN "reality" ELSE "tls")
             /\ f["pbk"] = If(reality, reality_public_key(p)) /\ f["sid"] = If(reality, reality_short_id(p))
             /\ f["sni"] = Or(p["sni"], p["servername"]) /\ f["alpn"] = p["alpn"] /\ f["fp"] = p["fp"]
             /\ f["insecure"] = If(is_insecure(p), "true")
             /\ \A k \in {"type", "path", "host", "servicename"} : f[k] = Read(t, k)
             /\ \A k \in ParamKeys \ {"security", "pbk", "sid", "sni", "alpn", "fp", "insecure", 
                                       "type", "path", "host", "servicename"} : f[k] = Absent
<1> DEFINE p == e.params
           f == parse_outbound(e.scheme, entry_to_outbound(e))
           t == native_transport_params(transport_object(e), "type")
           reality == SecurityIs(p, "reality") \/ reality_public_key(p) # Absent
           tls == tls_object(p, reality)
           s == native_tls_params(tls, "security")
           Tls == {"security", "pbk", "sid", "sni", "alpn", "fp", "insecure"}
<1>1. f = Params(s ++ t)
  BY DEF parse_outbound, entry_to_outbound, native_trojan
<1>2. /\ \A k \in DOMAIN s : k \in Tls
      /\ Read(s, "security") = (IF reality /\ (reality_public_key(p) # Absent \/ reality_short_id(p) # Absent)
                                THEN "reality" ELSE "tls")
      /\ Read(s, "pbk") = If(reality, reality_public_key(p)) /\ Read(s, "sid") = If(reality, reality_short_id(p))
      /\ Read(s, "sni") = Or(p["sni"], p["servername"]) /\ Read(s, "alpn") = p["alpn"]
      /\ Read(s, "fp") = p["fp"] /\ Read(s, "insecure") = If(is_insecure(p), "true")
  <2>1. reality \in BOOLEAN
    OBVIOUS
  <2> HIDE DEF reality
  <2> QED  BY <2>1, NativeTls DEF If
<1> HIDE DEF f, s, t, reality
<1>3. \A k \in DOMAIN t : k \in {"type", "path", "host", "servicename"}
  BY NativeTransport DEF t
<1>4. \A k \in ParamKeys : f[k] = IF k \in DOMAIN s THEN Read(s, k) ELSE Read(t, k)
  BY <1>1, ReadParams, ReadOver, ReadMaplet, DomOver, DomMaplet
<1>5. Tls \cup {"type", "path", "host", "servicename"} \subseteq ParamKeys
  BY DEF ParamKeys, UriKeys
<1>6. \A k \in Tls : f[k] = Read(s, k)
  BY <1>3, <1>4, <1>5 DEF Read
<1>7. \A k \in {"type", "path", "host", "servicename"} : f[k] = Read(t, k)
  BY <1>2, <1>4, <1>5
<1>8. \A k \in ParamKeys \ (Tls \cup {"type", "path", "host", "servicename"}) : f[k] = Absent
  BY <1>2, <1>3, <1>4 DEF Read
<1> QED  BY <1>2, <1>6, <1>7, <1>8 DEF f, t, reality

LEMMA SingboxHysteria2 ==
  ASSUME NEW e, e.scheme = "hysteria2"
  PROVE  LET p == e.params
             f == parse_outbound(e.scheme, entry_to_outbound(e))
         IN  /\ f["security"] = "tls" /\ f["pbk"] = Absent /\ f["sid"] = Absent
             /\ f["sni"] = Or(p["sni"], p["servername"]) /\ f["alpn"] = p["alpn"] /\ f["fp"] = p["fp"]
             /\ f["insecure"] = If(is_insecure(p), "true")
             /\ f["obfs"] = p["obfs"] /\ f["obfs-password"] = If(p["obfs"] # Absent, p["obfs-password"])
             /\ \A k \in ParamKeys \ {"security", "pbk", "sid", "sni", "alpn", "fp", "insecure", "obfs", "obfs-password"} :
                    f[k] = Absent
<1> DEFINE p == e.params
           f == parse_outbound(e.scheme, entry_to_outbound(e))
           s == native_tls_params(tls_object(p, FALSE), "security")
           password == If(p["obfs"] # Absent, p["obfs-password"])
           Tls == {"security", "pbk", "sid", "sni", "alpn", "fp", "insecure"}
<1>1. f = Params(s ++ Maplet("obfs", p["obfs"]) ++ Maplet("obfs-password", password))
  BY DEF parse_outbound, entry_to_outbound, native_hysteria2
<1>2. /\ \A k : k \in DOMAIN s <=> k \in Tls
      /\ Read(s, "security") = "tls" /\ Read(s, "pbk") = Absent /\ Read(s, "sid") = Absent
      /\ Read(s, "sni") = Or(p["sni"], p["servername"]) /\ Read(s, "alpn") = p["alpn"]
      /\ Read(s, "fp") = p["fp"] /\ Read(s, "insecure") = If(is_insecure(p), "true")
  BY NativeTls DEF If
<1> HIDE DEF f, s, password
<1>3. \A k \in ParamKeys : f[k] = IF k \in DOMAIN s THEN Read(s, k) ELSE IF k = "obfs" THEN p["obfs"]
                                 ELSE IF k = "obfs-password" THEN password ELSE Absent
  BY <1>1, ReadParams, ReadOver, ReadMaplet, DomOver, DomMaplet
<1>4. Tls \cup {"obfs", "obfs-password"} \subseteq ParamKeys
  BY DEF ParamKeys, UriKeys
<1>5. \A k \in Tls : f[k] = Read(s, k)
  BY <1>2, <1>3, <1>4
<1>6. f["obfs"] = p["obfs"] /\ f["obfs-password"] = password
  BY <1>2, <1>3, <1>4
<1>7. \A k \in ParamKeys \ (Tls \cup {"obfs", "obfs-password"}) : f[k] = Absent
  BY <1>2, <1>3
<1> QED  BY <1>2, <1>5, <1>6, <1>7 DEF f, password

LEMMA SingboxSocks5 ==
  ASSUME NEW e, e.scheme = "socks5"
  PROVE  LET p == e.params
             f == parse_outbound(e.scheme, entry_to_outbound(e))
             on == is_truthy_toggle(p["tls"])
         IN  /\ f["tls"] = If(on, "true") /\ f["sni"] = If(on, Or(p["sni"], p["servername"]))
             /\ f["insecure"] = If(on /\ is_insecure(p), "true")
             /\ \A k \in ParamKeys \ {"tls", "sni", "insecure"} : f[k] = Absent
<1> DEFINE p == e.params
           f == parse_outbound(e.scheme, entry_to_outbound(e))
           on == is_truthy_toggle(p["tls"])
           o == entry_to_outbound(e)
           s == native_socks(o)
<1>1. f = Params(s)
  BY DEF parse_outbound
<1>2. o.tls = IF on THEN [on |-> TRUE, sni |-> sni_of(p), insecure |-> is_insecure(p)] ELSE NoTls
  BY DEF entry_to_outbound
<1> HIDE DEF f, o
<1>3. /\ \A k \in DOMAIN s : k \in {"tls", "sni", "insecure"}
      /\ Read(s, "tls") = If(on, "true") /\ Read(s, "sni") = If(on, Or(p["sni"], p["servername"]))
      /\ Read(s, "insecure") = If(on /\ is_insecure(p), "true")
  <2>1. CASE on
    <3>1. o.tls.on = TRUE /\ o.tls.sni = Or(p["sni"], p["servername"]) /\ If(o.tls.insecure, "true") = If(is_insecure(p), "true")
      BY <1>2, <2>1 DEF sni_of
    <3>2. s = Maplet("tls", "true") ++ Maplet("sni", o.tls.sni) ++ Maplet("insecure", If(o.tls.insecure, "true"))
      BY <3>1 DEF native_socks
    <3> HIDE DEF s, on
    <3>3. /\ \A k \in DOMAIN s : k \in {"tls", "sni", "insecure"}
          /\ Read(s, "tls") = "true" /\ Read(s, "sni") = o.tls.sni /\ Read(s, "insecure") = If(o.tls.insecure, "true")
      BY <3>2, ReadOver, ReadMaplet, DomOver, DomMaplet
    <3> QED  BY <2>1, <3>1, <3>3 DEF If
  <2>2. CASE ~on
    <3>1. s = << >>
      BY <1>2, <2>2 DEF native_socks, NoTls
    <3> HIDE DEF s, on
    <3> QED  BY <2>2, <3>1, ReadNothing, NothingPut DEF If
  <2> QED  BY <2>1, <2>2
<1> HIDE DEF s, on
<1>4. \A k \in ParamKeys : f[k] = Read(s, k)
  BY <1>1, ReadParams
<1>5. {"tls", "sni", "insecure"} \subseteq ParamKeys
  BY DEF ParamKeys, UriKeys
<1> QED  BY <1>3, <1>4, <1>5 DEF f, s, on, Read

LEMMA SingboxSs ==
  ASSUME NEW e, e.scheme = "ss"
  PROVE  LET f == parse_outbound(e.scheme, entry_to_outbound(e))
         IN  \A k \in ParamKeys \ {"plugin", "plugin.options"} : f[k] = Absent
<1> DEFINE f == parse_outbound(e.scheme, entry_to_outbound(e))
           s == native_ss(entry_to_outbound(e))
<1>1. f = Params(s)
  BY DEF parse_outbound
<1>2. \A k \in DOMAIN s : k \in {"plugin", "plugin.options"}
  BY DomOver, DomMaplet DEF native_ss
<1> HIDE DEF f, s
<1> QED  BY <1>1, <1>2, ReadParams DEF f, Read

(* What a hop leaves of the spelling.                                       *)
LEMMA CredentialsReadBack ==
  ASSUME NEW scheme, NEW c, WholeCredential(scheme, c),
         NEW d \in {Split(scheme, c), clash_credential(scheme, Split(scheme, c)),
                    IF scheme = "ss" THEN MethodAndPassword(c) ELSE c}
  PROVE  WholeCredential(scheme, d) /\ Split(scheme, d) = Split(scheme, c)
<1>0. "chacha20-ietf-poly1305" # Absent
  BY DEF Absent
<1>1. CASE scheme = "ss"
  <2>1. CASE c = << >>
    BY <1>1, <2>1 DEF Split, MethodAndPassword, clash_credential, WholeCredential
  <2>2. CASE c = <<c[1]>> /\ c[1] # Absent
    BY <1>0, <1>1, <2>2 DEF Split, MethodAndPassword, clash_credential, WholeCredential
  <2>3. CASE c = <<c[1], c[2]>> /\ c[1] # Absent
    <3>1. DOMAIN c = {1, 2} /\ Len(c) = 2
      BY <2>3
    <3>2. MethodAndPassword(c) = c
      BY <3>1 DEF MethodAndPassword
    <3>3. Split(scheme, c) = c
      BY <1>1, <3>2 DEF Split
    <3>4. clash_credential(scheme, c) = c
      BY <2>3, <3>1 DEF clash_credential
    <3> QED  BY <1>1, <3>2, <3>3, <3>4
  <2> QED  BY <1>1, <2>1, <2>2, <2>3 DEF WholeCredential
<1>2. CASE scheme = "socks5"
  <2>1. Split(scheme, c) = UserAndPassword(c) /\ Split(scheme, d) = UserAndPassword(d)
    BY <1>2 DEF Split
  <2>2. CASE c = << >> \/ c = <<c[1]>>
    <3>1. UserAndPassword(c) = <<Absent, Absent>> /\ Len(c) # 2
      BY <2>2 DEF UserAndPassword
    <3> DEFINE two == <<Absent, Absent>>
    <3>2. clash_credential(scheme, two) = << >>
      <4>1. DOMAIN two = {1, 2} /\ two[1] = Absent /\ two[2] = Absent
        OBVIOUS
      <4> HIDE DEF two
      <4> QED  BY <4>1 DEF clash_credential
    <3> QED  BY <1>2, <2>1, <2>2, <3>1, <3>2 DEF WholeCredential, UserAndPassword
  <2>3. CASE c = <<c[1], c[2]>>
    <3>1. UserAndPassword(c) = c
      BY <2>3 DEF UserAndPassword
    <3>2. CASE c[1] = Absent /\ c[2] = Absent
      <4>1. c = <<Absent, Absent>>
        BY <2>3, <3>2
      <4>2. clash_credential(scheme, c) = << >>
        BY <4>1 DEF clash_credential
      <4> QED  BY <1>2, <2>1, <2>3, <3>1, <4>1, <4>2 DEF WholeCredential, UserAndPassword
    <3>3. CASE ~(c[1] = Absent /\ c[2] = Absent)
      <4>1. clash_credential(scheme, c) = c
        BY <1>2, <2>3, <3>3 DEF clash_credential
      <4> QED  BY <1>2, <2>1, <2>3, <3>1, <4>1 DEF WholeCredential, UserAndPassword
    <3> QED  BY <3>2, <3>3
  <2> QED  BY <2>2, <2>3 DEF WholeCredential
<1>3. CASE scheme \notin {"ss", "socks5"}
  <2>1. Split(scheme, c) = c /\ Split(scheme, d) = d
    BY <1>3 DEF Split
  <2>2. clash_credential(scheme, c) = c
    BY <1>3 DEF clash_credential, WholeCredential
  <2> QED  BY <1>3, <2>1, <2>2
<1> QED  BY <1>1, <1>2, <1>3

-----------------------------------------------------------------------------
(* A written entry is spelled in one vocabulary again, and the probe reads  *)
(* the same entry as the tunnel does.                                       *)

LEMMA OrIf == \A a, b, cond : /\ Or(Absent, b) = b /\ Or(a, Absent) = a /\ If(cond, Absent) = Absent
                             /\ (a # Absent => Or(a, b) = a)
  BY DEF Or, If

LEMMA WordSets ==
  /\ UriWords("vless") = {"security", "sni", "insecure", "allowinsecure", "type", "path", "host", "servicename", "fp", "pbk", "sid",
            "flow", "alpn"}
  /\ UriWords("trojan") = {"security", "sni", "insecure", "allowinsecure", "type", "path", "host", "servicename", "fp", "pbk", "sid",
            "flow", "alpn"}
  /\ UriWords("vmess") = {"tls", "sni", "insecure", "allowinsecure", "net", "path", "host", "servicename", "fp", "pbk", "sid", "alpn", "scy"}
  /\ UriWords("ss") = {"plugin", "plugin.options", "plugin-opts"}
  /\ UriWords("hysteria2") = {"security", "sni", "insecure", "allowinsecure", "alpn", "obfs", "obfs-password"}
  /\ UriWords("socks5") = {"tls", "sni", "insecure", "allowinsecure"}
  /\ UriWords("anytls") = {"sni", "insecure", "allowinsecure"}
  /\ UriWords("tuic") = {"sni", "insecure", "allowinsecure"}
BY DEF UriWords, TlsFamily

LEMMA ToggleKeys ==
  ASSUME NEW scheme
  PROVE  DOMAIN toggle_key(scheme) = IF scheme \in TlsFamily \cup {"vmess"} THEN {"allowinsecure"}
                                     ELSE IF scheme \in {"hysteria2", "anytls"} THEN {"insecure"} ELSE {}
BY MapletDomain, NothingPut DEF toggle_key

\* The words of the URI vocabulary are all a translation leaves.
LEMMA UriInWords ==
  ASSUME NEW e, IsEntry(e), Spelled(e), e.dialect # "uri"
  PROVE  \A k \in ParamKeys \ UriWords(e.scheme) : canonical_uri_entry(e).params[k] = Absent
<1> DEFINE p == e.params
           q == canonical_uri_entry(e).params
           s == e.scheme
<1>1. \A k \in ParamKeys \ (IF e.dialect = "clash" THEN ClashWords(s) ELSE UriWords(s)) : p[k] = Absent
  BY DEF Spelled, InWords
<1>2. s \in Protocols
  BY DEF Spelled
<1> SUFFICES ASSUME NEW k \in ParamKeys \ UriWords(s) PROVE q[k] = Absent
  OBVIOUS
<1>3. CASE k \in ClashKeys
  <2>1. k \in ClashKeys \ {"plugin-opts"} => q[k] = Absent
    BY UriTable
  <2>2. k = "plugin-opts" => p[k] = Absent
    <3>1. "plugin-opts" \in ClashWords(s) => s = "ss"
      BY <1>2, BlockKeySet DEF ClashWords, Protocols
    <3>2. "plugin-opts" \in UriWords("ss")
      BY WordSets
    <3> QED  BY <1>1, <3>1, <3>2
  <2> QED  BY <1>3, <2>1, <2>2, UriTable
<1>4. CASE k \in UriKeys
  <2>1. CASE s = "vless"
    BY <1>1, <1>4, <2>1, UriTable, WordSets, ToggleKeys, OrIf, BlockKeySet DEF UriKeys, ParamKeys, ClashKeys, ClashWords, network_key, network_of, TlsFamily, reality_public_key, reality_short_id
  <2>2. CASE s = "trojan"
    BY <1>1, <1>4, <2>2, UriTable, WordSets, ToggleKeys, OrIf, BlockKeySet DEF UriKeys, ParamKeys, ClashKeys, ClashWords, network_key, network_of, TlsFamily, reality_public_key, reality_short_id
  <2>3. CASE s = "vmess"
    BY <1>1, <1>4, <2>3, UriTable, WordSets, ToggleKeys, OrIf, BlockKeySet DEF UriKeys, ParamKeys, ClashKeys, ClashWords, network_key, network_of, TlsFamily, reality_public_key, reality_short_id
  <2>4. CASE s = "ss"
    BY <1>1, <1>4, <2>4, UriTable, WordSets, ToggleKeys, OrIf, BlockKeySet DEF UriKeys, ParamKeys, ClashKeys, ClashWords, network_key, network_of, TlsFamily, reality_public_key, reality_short_id
  <2>5. CASE s = "hysteria2"
    BY <1>1, <1>4, <2>5, UriTable, WordSets, ToggleKeys, OrIf, BlockKeySet DEF UriKeys, ParamKeys, ClashKeys, ClashWords, network_key, network_of, TlsFamily, reality_public_key, reality_short_id
  <2>6. CASE s = "socks5"
    BY <1>1, <1>4, <2>6, UriTable, WordSets, ToggleKeys, OrIf, BlockKeySet DEF UriKeys, ParamKeys, ClashKeys, ClashWords, network_key, network_of, TlsFamily, reality_public_key, reality_short_id
  <2>7. CASE s = "anytls"
    BY <1>1, <1>4, <2>7, UriTable, WordSets, ToggleKeys, OrIf, BlockKeySet DEF UriKeys, ParamKeys, ClashKeys, ClashWords, network_key, network_of, TlsFamily, reality_public_key, reality_short_id
  <2>8. CASE s = "tuic"
    BY <1>1, <1>4, <2>8, UriTable, WordSets, ToggleKeys, OrIf, BlockKeySet DEF UriKeys, ParamKeys, ClashKeys, ClashWords, network_key, network_of, TlsFamily, reality_public_key, reality_short_id
  <2> QED  BY <1>2, <2>1, <2>2, <2>3, <2>4, <2>5, <2>6, <2>7, <2>8 DEF Protocols
<1> QED  BY <1>3, <1>4 DEF ParamKeys

\* What a Clash item says of its own network and of no other.
LEMMA ClashBlocks ==
  ASSUME NEW e, network_of(e) \in Networks, NEW net \in {"ws", "grpc", "h2", "http"},
         Read(put_transport(e), "network") # net, NEW k \in Blocks(net)
  PROVE  Read(put_transport(e), k) = Absent
BY TransportTable, AbsentIsNothing DEF Blocks, If, Networks

LEMMA RealityKey ==
  ASSUME NEW e, Spelled(e), e.scheme \in TlsFamily, SecurityIs(e.params, "reality")
  PROVE  reality_public_key(e.params) # Absent
<1> DEFINE p == e.params
<1>1. CASE e.dialect = "clash"
  <2>1. "security" \notin ClashWords(e.scheme) /\ "security" \in ParamKeys
    BY BlockKeySet DEF ClashWords, TlsFamily, ParamKeys, UriKeys
  <2>2. p["security"] = Absent
    BY <1>1, <2>1 DEF Spelled, InWords
  <2> QED  BY <2>2, AbsentIsNothing DEF SecurityIs
<1>2. CASE e.dialect # "clash"
  BY <1>2 DEF Spelled, OneSecurity, SecurityIs, reality_public_key, Or
<1> QED  BY <1>1, <1>2

\* The three writers write in the words of their vocabulary.
LEMMA SpelledUri ==
  ASSUME NEW e, IsEntry(e), Spelled(e), NEW r, r.scheme = e.scheme, r.dialect = "uri", r.params = UriParams(e),
         WholeCredential(r.scheme, r.credential)
  PROVE  Spelled(r)
<1> DEFINE p == e.params
           q == r.params
           s == e.scheme
<1>0. s \in Protocols
  BY DEF Spelled
<1>1. CASE e.dialect = "uri"
  <2>1. q = p
    BY <1>1 DEF UriParams
  <2>2. network_of(r) = network_of(e)
    BY <2>1 DEF network_of
  <2> QED  BY <1>1, <2>1, <2>2 DEF Spelled, InWords, OneNetwork, OneSecurity
<1>2. CASE e.dialect # "uri"
  <2>1. q = canonical_uri_entry(e).params
    BY <1>2 DEF UriParams
  <2>2. InWords(r)
    BY <1>2, <2>1, UriInWords DEF InWords
  <2>3. network_of(r) = network_of(e)
    <3>1. q["network"] = Absent /\ q[network_key(s)] = network_of(e)
      BY <2>1, UriTable DEF ClashKeys
    <3> QED  BY <3>1, OrIf DEF network_of
  <2>4. OneSecurity(r)
    <3>1. s \in TlsFamily => (q["pbk"] # Absent <=> SecurityIs(q, "reality"))
      <4>1. s \in TlsFamily => (SecurityIs(p, "reality") => reality_public_key(p) # Absent)
        BY RealityKey
      <4> QED  BY <2>1, <4>1, UriTable, AbsentIsNothing DEF SecurityIs, Or, If
    <3>2. s = "socks5" => q["tls"] # "tls"
      BY <2>1, UriTable DEF TlsFamily, Spelled, OneSecurity
    <3> QED  BY <3>1, <3>2 DEF OneSecurity
  <2> QED  BY <1>0, <2>2, <2>3, <2>4 DEF Spelled, OneNetwork
<1> QED  BY <1>1, <1>2

LEMMA SpelledClash ==
  ASSUME NEW e, IsEntry(e), Spelled(e), clash_is_supported(e.scheme),
         NEW r, r.scheme = e.scheme, r.dialect = "clash", r.params = entry_to_clash(e),
         WholeCredential(r.scheme, r.credential)
  PROVE  Spelled(r)
<1> DEFINE p == e.params
           q == r.params
           s == e.scheme
           t == put_transport(e)
<1>0. network_of(e) \in Networks /\ s \in Protocols
  BY DEF Spelled, OneNetwork
<1>1. s \in {"vless", "vmess", "trojan", "ss", "hysteria2", "socks5", "anytls"}
  BY DEF clash_is_supported, singbox_is_supported
<1>2. InWords(r)
  BY <1>0, <1>1, ClashVless, ClashVmess, ClashTrojan, ClashSs, ClashHysteria2, ClashSocks5, ClashAnytls DEF InWords
<1>3. /\ network_of(r) = q["network"]
      /\ q[network_key(s)] = Absent
  <2>1. network_key(s) \notin ClashWords(s) /\ network_key(s) \in ParamKeys
    BY <1>1, BlockKeySet DEF network_key, ClashWords, ParamKeys, UriKeys
  <2>2. q[network_key(s)] = Absent
    BY <1>2, <2>1 DEF InWords
  <2> QED  BY <2>2, OrIf DEF network_of
<1>4. OneNetwork(r)
  <2>1. CASE s \in {"vless", "vmess", "trojan"}
    <3>1. \A k \in {"network"} \cup BlockKeys : q[k] = Read(t, k)
      BY <1>0, <2>1, ClashVless, ClashVmess, ClashTrojan
    <3>2. \A net \in {"ws", "grpc", "h2", "http"} : Blocks(net) \subseteq BlockKeys
      BY DEF BlockKeys
    <3>3. q["network"] \in Networks
      BY <1>0, <3>1, TransportTable DEF Networks
    <3> QED  BY <1>0, <1>3, <3>1, <3>2, <3>3, ClashBlocks DEF OneNetwork
  <2>2. CASE s \notin {"vless", "vmess", "trojan"}
    <3>1. \A k \in {"network"} \cup BlockKeys : k \in ParamKeys \ ClashWords(s)
      BY <1>1, <2>2, BlockKeySet DEF ClashWords, ParamKeys, ClashKeys
    <3>2. \A k \in {"network"} \cup BlockKeys : q[k] = Absent
      BY <1>2, <3>1 DEF InWords
    <3>3. \A net \in {"ws", "grpc", "h2", "http"} : Blocks(net) \subseteq BlockKeys
      BY DEF BlockKeys
    <3> QED  BY <1>3, <3>2, <3>3 DEF OneNetwork, Networks
  <2> QED  BY <2>1, <2>2
<1>5. OneSecurity(r)
  BY <1>0, ClashVless, ClashSocks5, AbsentIsNothing DEF OneSecurity, If
<1> QED  BY <1>0, <1>2, <1>4, <1>5 DEF Spelled

LEMMA SpelledSingbox ==
  ASSUME NEW e, IsEntry(e), Spelled(e), singbox_is_supported(e.scheme),
         NEW r, r.scheme = e.scheme, r.dialect = "singbox", r.params = parse_outbound(e.scheme, entry_to_outbound(e)),
         WholeCredential(r.scheme, r.credential)
  PROVE  Spelled(r)
<1> DEFINE p == e.params
           q == r.params
           s == e.scheme
<1>0. network_of(e) \in Networks /\ s \in Protocols
  BY DEF Spelled, OneNetwork
<1>1. s \in {"vless", "vmess", "trojan", "ss", "hysteria2", "socks5"}
  BY DEF singbox_is_supported
<1>2. InWords(r)
  <2>1. CASE s = "vless"
    BY <1>0, <2>1, SingboxVless, WordSets DEF InWords
  <2>2. CASE s = "vmess"
    BY <1>0, <2>2, SingboxVmess, WordSets DEF InWords
  <2>3. CASE s = "trojan"
    BY <1>0, <2>3, SingboxTrojan, WordSets DEF InWords
  <2>4. CASE s = "ss"
    BY <2>4, SingboxSs, WordSets DEF InWords
  <2>5. CASE s = "hysteria2"
    <3>1. p["fp"] = Absent
      <4>1. "fp" \notin UriWords(s) /\ "fp" \notin ClashWords(s) /\ "fp" \in ParamKeys
        BY <2>5, WordSets, BlockKeySet DEF ClashWords, ParamKeys, UriKeys
      <4> QED  BY <4>1 DEF Spelled, InWords
    <3> QED  BY <2>5, <3>1, SingboxHysteria2, WordSets DEF InWords
  <2>6. CASE s = "socks5"
    BY <2>6, SingboxSocks5, WordSets DEF InWords
  <2> QED  BY <1>1, <2>1, <2>2, <2>3, <2>4, <2>5, <2>6
<1>3. network_of(r) = q[network_key(s)]
  <2>1. "network" \notin UriWords(s) /\ "network" \in ParamKeys
    BY <1>1, WordSets DEF ParamKeys, ClashKeys
  <2>2. q["network"] = Absent
    BY <1>2, <2>1 DEF InWords
  <2> QED  BY <2>2 DEF network_of, Or
<1>4. q[network_key(s)] \in Networks
  <2>1. CASE s \in {"vless", "trojan"}
    BY <1>0, <2>1, SingboxVless, SingboxTrojan, NativeTransport DEF network_key, Networks
  <2>2. CASE s = "vmess"
    BY <1>0, <2>2, SingboxVmess, NativeTransport DEF network_key, Networks
  <2>3. CASE s \notin {"vless", "trojan", "vmess"}
    <3>1. network_key(s) \notin UriWords(s) /\ network_key(s) \in ParamKeys
      BY <1>1, <2>3, WordSets DEF network_key, ParamKeys, UriKeys
    <3>2. q[network_key(s)] = Absent
      BY <1>2, <3>1 DEF InWords
    <3> QED  BY <3>2 DEF Networks
  <2> QED  BY <2>1, <2>2, <2>3
<1>5. OneSecurity(r)
  <2>1. CASE s = "vless"
    BY <1>0, <2>1, SingboxVless, RealityKey, AbsentIsNothing DEF OneSecurity, If, SecurityIs, TlsFamily
  <2>2. CASE s = "trojan"
    BY <1>0, <2>2, SingboxTrojan, RealityKey, AbsentIsNothing DEF OneSecurity, If, SecurityIs, TlsFamily
  <2>3. CASE s = "socks5"
    BY <2>3, SingboxSocks5, AbsentIsNothing DEF OneSecurity, If, TlsFamily
  <2>4. CASE s \notin {"vless", "trojan", "socks5"}
    BY <2>4 DEF OneSecurity, TlsFamily
  <2> QED  BY <2>1, <2>2, <2>3, <2>4
<1> QED  BY <1>0, <1>2, <1>3, <1>4, <1>5 DEF Spelled, OneNetwork

\* A hop that loses nothing hands on a spelled entry.
LEMMA HopSpelled ==
  ASSUME NEW e, IsEntry(e), Spelled(e), NEW format \in {"url_list", "clash", "singbox"}, ~Serialized(format, e).lost
  PROVE  Spelled(Serialized(format, e))
<1> DEFINE r == Serialized(format, e)
<1>0. DOMAIN e = {"scheme", "dialect", "credential", "params", "lost"} /\ WholeCredential(e.scheme, e.credential)
  BY DEF IsEntry, Spelled
<1>1. CASE format = "url_list"
  <2>1. r = via_uri(e)
    BY <1>1 DEF Serialized
  <2>2. DOMAIN canonical_uri_entry(e) = DOMAIN e /\ canonical_uri_entry(e).scheme = e.scheme
        /\ canonical_uri_entry(e).credential = e.credential
    BY <1>0 DEF canonical_uri_entry
  <2>3. /\ r.scheme = e.scheme /\ r.dialect = "uri" /\ r.params = UriParams(e)
        /\ r.credential = IF e.scheme = "ss" THEN MethodAndPassword(e.credential) ELSE e.credential
    BY <1>0, <2>1, <2>2 DEF via_uri, UriParams
  <2>4. WholeCredential(r.scheme, r.credential)
    BY <1>0, <2>3, CredentialsReadBack
  <2> QED  BY <2>3, <2>4, SpelledUri
<1>2. CASE format = "clash"
  <2>1. r = via_clash(e)
    BY <1>2 DEF Serialized
  <2>2. /\ r.scheme = e.scheme /\ r.dialect = "clash" /\ (r.lost <=> ~clash_is_supported(e.scheme))
        /\ r.params = IF clash_is_supported(e.scheme) THEN entry_to_clash(e) ELSE e.params
        /\ r.credential = clash_credential(e.scheme, Split(e.scheme, e.credential))
    BY <1>0, <2>1 DEF via_clash
  <2>3. WholeCredential(r.scheme, r.credential)
    BY <1>0, <2>2, CredentialsReadBack
  <2> QED  BY <2>2, <2>3, SpelledClash
<1>3. CASE format = "singbox"
  <2>1. r = via_singbox(e)
    BY <1>3 DEF Serialized
  <2>2. /\ r.scheme = e.scheme /\ r.dialect = "singbox" /\ (r.lost <=> ~singbox_is_supported(e.scheme))
        /\ r.params = IF singbox_is_supported(e.scheme) THEN parse_outbound(e.scheme, entry_to_outbound(e)) ELSE e.params
        /\ r.credential = Split(e.scheme, e.credential)
    BY <1>0, <2>1 DEF via_singbox
  <2>3. WholeCredential(r.scheme, r.credential)
    BY <1>0, <2>2, CredentialsReadBack
  <2> QED  BY <2>2, <2>3, SpelledSingbox
<1> QED  BY <1>1, <1>2, <1>3

LEMMA RepublishStarts == RepublishInit => RepublishTypeOK
BY EntryAssumption, SpellingAssumption DEF RepublishInit, RepublishTypeOK

LEMMA RepublishSteps == RepublishTypeOK /\ [RepublishNext]_entryVars => RepublishTypeOK'
<1> SUFFICES ASSUME RepublishTypeOK, [RepublishNext]_entryVars PROVE RepublishTypeOK'
  OBVIOUS
<1>1. CASE UNCHANGED entryVars
  <2>1. current' = current /\ hops' = hops
    BY <1>1 DEF entryVars
  <2> QED  BY <2>1 DEF RepublishTypeOK
<1>2. ASSUME NEW format \in {"url_list", "clash", "singbox"}, Republished(format)
      PROVE  RepublishTypeOK'
  <2>1. /\ current' = Serialized(format, current) /\ hops' = hops + 1 /\ hops < MaxHops /\ ~current.lost
    BY <1>2 DEF Republished
  <2>2. IsEntry(current) /\ Spelled(current) /\ hops \in 0..MaxHops
    BY <2>1 DEF RepublishTypeOK
  <2>3. IsEntry(current') /\ (~current'.lost => Spelled(current'))
    BY <2>1, <2>2, SerializedIsEntry, HopSpelled
  <2>4. hops' \in 0..MaxHops
    BY <2>1, <2>2, EntryAssumption
  <2> QED  BY <2>3, <2>4 DEF RepublishTypeOK
<1> QED  BY <1>1, <1>2 DEF RepublishNext

LEMMA RepublishTypes == RepublishSpec => []RepublishTypeOK
BY RepublishStarts, RepublishSteps, PTL DEF RepublishSpec

(* The probe's reading.                                                     *)
LEMMA CarriedKeys ==
  ASSUME NEW e, NEW host
  PROVE  LET q == carry_server_name(e, host)
             p == e.params
             keys == server_name_sources(e.scheme)
         IN  /\ e.scheme \in {"vless", "vmess"} =>
                   q["servername"] = Or(p["servername"], Or(p["sni"], host)) /\ q["sni"] = Absent
             /\ e.scheme \in {"trojan", "hysteria2", "anytls"} => q["sni"] = Or(p["sni"], Or(p["servername"], host))
             /\ \A k \in DOMAIN p \ {"sni", "servername"} : q[k] = p[k]
<1> DEFINE p == e.params
           q == carry_server_name(e, host)
<1>1. CASE e.scheme \in {"vless", "vmess"}
  <2>1. server_name_sources(e.scheme) = <<"servername", "sni">>
    BY <1>1 DEF server_name_sources
  <2>2. q = Maplet("servername", Or(p["servername"], Or(p["sni"], host))) ++ Maplet("sni", Absent) ++ p
    BY <2>1 DEF carry_server_name
  <2> HIDE DEF q
  <2> QED  BY <1>1, <2>2, Over, MapletKey DEF q
<1>2. CASE e.scheme \in {"trojan", "hysteria2", "anytls"}
  <2>1. server_name_sources(e.scheme) = <<"sni", "servername">>
    BY <1>2 DEF server_name_sources
  <2>2. q = Maplet("sni", Or(p["sni"], Or(p["servername"], host))) ++ Maplet("servername", Absent) ++ p
    BY <2>1 DEF carry_server_name
  <2> HIDE DEF q
  <2> QED  BY <1>2, <2>2, Over, MapletKey DEF q
<1>3. CASE e.scheme \notin {"vless", "vmess", "trojan", "hysteria2", "anytls"}
  <2>1. server_name_sources(e.scheme) = << >>
    BY <1>3 DEF server_name_sources
  <2>2. q = p
    BY <2>1 DEF carry_server_name
  <2> QED  BY <1>3, <2>2
<1> QED  BY <1>1, <1>2, <1>3

\* The reachability check and the engine's entry of a spelled proxy.
LEMMA ProbeMeetsEntry ==
  ASSUME IsEntry(current), Spelled(current), clash_is_supported(current.scheme)
  PROVE  ProbeSeesTheNode
<1> DEFINE e == current
           p == e.params
           s == e.scheme
           host == "its-host"
           c == [e EXCEPT !.params = carry_server_name(e, host)]
           written == entry_to_clash(e)
           pinned == entry_to_clash(c)
<1>0. network_of(e) \in Networks /\ DOMAIN e = {"scheme", "dialect", "credential", "params", "lost"} /\ DOMAIN p = ParamKeys
  BY DEF Spelled, OneNetwork, IsEntry
<1>1. c.params = carry_server_name(e, host) /\ c.scheme = s
  BY <1>0
<1>2. \A k \in ParamKeys \ {"sni", "servername"} : c.params[k] = p[k]
  BY <1>0, <1>1, CarriedKeys
<1>3. network_of(c) = network_of(e)
  <2>1. {"type", "net", "network"} \subseteq ParamKeys \ {"sni", "servername"}
    BY DEF ParamKeys, UriKeys, ClashKeys
  <2> QED  BY <1>1, <1>2, <2>1 DEF network_of, network_key
<1>4. {"security", "tls"} \subseteq ParamKeys \ {"sni", "servername"} /\ "servername" \in ParamKeys
  BY DEF ParamKeys, UriKeys, ClashKeys
<1>5. c.params["security"] = p["security"] /\ c.params["tls"] = p["tls"]
  BY <1>2, <1>4
<1> HIDE DEF c
<1>6. CASE s = "vless"
  <2> DEFINE on(q) == SecurityIs(q, "tls") \/ SecurityIs(q, "reality") \/ is_truthy_toggle(q["tls"])
  <2>1. written["tls"] = If(on(p), "true") /\ written["servername"] = If(on(p), Or(p["servername"], p["sni"]))
    BY <1>0, <1>6, ClashVless
  <2>2. pinned["servername"] = If(on(c.params), Or(c.params["servername"], c.params["sni"]))
    BY <1>0, <1>1, <1>3, <1>6, ClashVless
  <2>3. c.params["servername"] = Or(p["servername"], Or(p["sni"], host)) /\ c.params["sni"] = Absent
    BY <1>1, <1>6, CarriedKeys
  <2>4. on(c.params) <=> on(p)
    BY <1>5 DEF SecurityIs
  <2>5. p["tls"] # "tls"
    <3>1. "tls" \notin UriWords("vless")
      BY WordSets
    <3> QED  BY <1>4, <1>6, <3>1, AbsentIsNothing DEF Spelled, InWords, OneSecurity
  <2>6. check_kind(e) = "tls" <=> on(p)
    BY <1>6, <2>5 DEF check_kind, params_enable_tls, TlsStated
  <2>7. written["tls"] = "true" <=> on(p)
    BY <2>1, AbsentIsNothing DEF If
  <2>8. on(p) => pinned["servername"] = Or(written["servername"], host)
    BY <2>1, <2>2, <2>3, <2>4 DEF If, Or
  <2> HIDE DEF written, pinned
  <2> QED  BY <1>6, <2>6, <2>7, <2>8 DEF ProbeSeesTheNode, ServerNameOf, written, pinned, c
<1>7. CASE s = "vmess"
  <2> DEFINE on(q) == TlsStated(q) \/ SecurityIs(q, "tls")
  <2>1. written["tls"] = If(on(p), "true") /\ written["servername"] = If(on(p), Or(p["servername"], p["sni"]))
    BY <1>0, <1>7, ClashVmess
  <2>2. pinned["servername"] = If(on(c.params), Or(c.params["servername"], c.params["sni"]))
    BY <1>0, <1>1, <1>3, <1>7, ClashVmess
  <2>3. c.params["servername"] = Or(p["servername"], Or(p["sni"], host)) /\ c.params["sni"] = Absent
    BY <1>1, <1>7, CarriedKeys
  <2>4. on(c.params) <=> on(p)
    BY <1>5 DEF SecurityIs, TlsStated
  <2>5. p["security"] = Absent
    <3>1. "security" \notin UriWords("vmess") /\ "security" \notin ClashWords("vmess")
      BY WordSets, BlockKeySet DEF ClashWords
    <3> QED  BY <1>4, <1>7, <3>1 DEF Spelled, InWords
  <2>6. check_kind(e) = "tls" <=> on(p)
    BY <1>7, <2>5, AbsentIsNothing DEF check_kind, params_enable_tls, SecurityIs
  <2>7. written["tls"] = "true" <=> on(p)
    BY <2>1, AbsentIsNothing DEF If
  <2>8. on(p) => pinned["servername"] = Or(written["servername"], host)
    BY <2>1, <2>2, <2>3, <2>4 DEF If, Or
  <2> HIDE DEF written, pinned
  <2> QED  BY <1>7, <2>6, <2>7, <2>8 DEF ProbeSeesTheNode, ServerNameOf, written, pinned, c
<1>8. CASE s \in {"trojan", "hysteria2", "anytls"}
  <2>1. written["sni"] = p["sni"] /\ pinned["sni"] = c.params["sni"]
    BY <1>0, <1>1, <1>3, <1>8, ClashTrojan, ClashHysteria2, ClashAnytls
  <2>2. c.params["sni"] = Or(p["sni"], Or(p["servername"], host))
    BY <1>1, <1>8, CarriedKeys
  <2>3. p["servername"] = Absent
    <3>1. "servername" \notin UriWords(s) /\ "servername" \notin ClashWords(s)
      BY <1>8, WordSets, BlockKeySet DEF ClashWords
    <3> QED  BY <1>4, <3>1 DEF Spelled, InWords
  <2>4. pinned["sni"] = Or(written["sni"], host)
    BY <2>1, <2>2, <2>3 DEF Or
  <2>5. s \in {"trojan", "anytls"} => check_kind(e) = "tls"
    BY DEF check_kind
  <2> HIDE DEF written, pinned
  <2> QED  BY <1>8, <2>4, <2>5 DEF ProbeSeesTheNode, ServerNameOf, written, pinned, c
<1>9. CASE s \in {"ss", "socks5"}
  <2>1. s = "ss" => written["tls"] # "true"
    <3>1. "tls" \notin ClashWords("ss") /\ "tls" \in ParamKeys
      BY DEF ClashWords, ParamKeys, UriKeys
    <3> QED  BY <3>1, ClashSs, AbsentIsNothing
  <2> HIDE DEF written, pinned
  <2> QED  BY <1>9, <2>1 DEF ProbeSeesTheNode, written
<1> QED  BY <1>6, <1>7, <1>8, <1>9 DEF clash_is_supported, singbox_is_supported

-----------------------------------------------------------------------------
(* What the fingerprint decides about the node.                              *)

\* What a client of the URI list reads of an entry in any dialect.
LEMMA UriReading ==
  ASSUME NEW e, IsEntry(e), Spelled(e)
  PROVE  LET p == e.params
             u == UriParams(e)
             s == e.scheme
         IN  /\ u[network_key(s)] = network_of(e)
             /\ u["sni"] = Or(p["sni"], p["servername"])
             /\ u["path"] = Or(p["path"], Or(p["ws-opts.path"], Or(p["h2-opts.path"], p["http-opts.path"])))
             /\ u["host"] = Or(p["host"], Or(p["ws-opts.host"], Or(p["h2-opts.host"], p["http-opts.host"])))
             /\ u["servicename"] = Or(p["servicename"], p["grpc-opts.service"])
             /\ u["fp"] = Or(p["fp"], p["client-fingerprint"])
             /\ u["pbk"] = reality_public_key(p) /\ u["sid"] = reality_short_id(p)
             /\ s = "vmess" => u["scy"] = Or(p["scy"], p["cipher"])
             /\ u["alpn"] = p["alpn"] /\ u["flow"] = p["flow"] /\ u["obfs"] = p["obfs"]
             /\ u["obfs-password"] = p["obfs-password"]
             /\ s \in TlsFamily =>
                  /\ u["tls"] = Absent
                  /\ u["security"] = IF reality_public_key(p) # Absent THEN "reality"
                                     ELSE Or(p["security"], If(TlsStated(p), "tls"))
             /\ s \notin TlsFamily => (TlsStated(u) <=> TlsStated(p))
             /\ (e.dialect # "clash" \/ s \notin {"socks5", "tuic", "ss"}) => (is_insecure(u) <=> is_insecure(p))
<1> DEFINE p == e.params
           u == UriParams(e)
           q == canonical_uri_entry(e).params
           s == e.scheme
<1>0. s \in Protocols /\ InWords(e) /\ OneSecurity(e)
  BY DEF Spelled
<1>1. CASE e.dialect = "uri"
  <2>1. u = p
    BY <1>1 DEF UriParams
  <2>2. \A k \in ClashKeys \ {"plugin-opts"} : p[k] = Absent
    <3>1. \A k \in ClashKeys \ {"plugin-opts"} : k \in ParamKeys \ UriWords(s)
      BY <1>0, WordSets DEF Protocols, ClashKeys, ParamKeys
    <3> QED  BY <1>0, <1>1, <3>1 DEF InWords
  <2>3. /\ p["servername"] = Absent /\ p["network"] = Absent /\ p["client-fingerprint"] = Absent /\ p["cipher"] = Absent
        /\ p["ws-opts.path"] = Absent /\ p["ws-opts.host"] = Absent /\ p["grpc-opts.service"] = Absent
        /\ p["h2-opts.path"] = Absent /\ p["h2-opts.host"] = Absent /\ p["http-opts.path"] = Absent /\ p["http-opts.host"] = Absent
        /\ p["reality-opts.public-key"] = Absent /\ p["reality-opts.short-id"] = Absent
    BY <2>2 DEF ClashKeys
  <2>4. s \in TlsFamily => p["tls"] = Absent /\ (p["pbk"] # Absent <=> p["security"] = "reality")
    <3>1. s \in TlsFamily => "tls" \in ParamKeys \ UriWords(s)
      BY WordSets DEF TlsFamily, ParamKeys, UriKeys
    <3> QED  BY <1>0, <1>1, <3>1 DEF InWords, OneSecurity, SecurityIs
  <2>5. s \in TlsFamily =>
                     p["security"] = IF reality_public_key(p) # Absent THEN "reality"
                                     ELSE Or(p["security"], If(TlsStated(p), "tls"))
    BY <2>3, <2>4, AbsentIsNothing DEF reality_public_key, Or, If, TlsStated
  <2> QED  BY <2>1, <2>3, <2>4, <2>5 DEF Or, network_of, reality_public_key, reality_short_id
<1>2. CASE e.dialect # "uri"
  <2>1. u = q
    BY <1>2 DEF UriParams
  <2>2. s \notin TlsFamily => (TlsStated(q) <=> TlsStated(p))
    <3>1. CASE s = "vmess"
      BY <3>1, UriTable, AbsentIsNothing DEF TlsStated, If
    <3>2. CASE s \notin TlsFamily \cup {"vmess"}
      BY <3>2, UriTable DEF TlsStated
    <3> QED  BY <3>1, <3>2
  <2>3. (e.dialect # "clash" \/ s \notin {"socks5", "tuic", "ss"}) => (is_insecure(q) <=> is_insecure(p))
    <3>1. "skip-cert-verify" \in ClashKeys \ {"plugin-opts"} /\ {"insecure", "allowinsecure", "skip-cert-verify"} \subseteq ParamKeys
      BY DEF ClashKeys, UriKeys, ParamKeys
    <3>2. q["skip-cert-verify"] = Absent
      BY <3>1, UriTable
    <3>3. is_insecure(q) => is_insecure(p)
      BY UriToggle
    <3>4. ASSUME e.dialect # "clash" \/ s \notin {"socks5", "tuic", "ss"} PROVE is_insecure(p) => is_insecure(q)
      <4>1. CASE e.dialect # "clash"
        <5>1. "skip-cert-verify" \notin UriWords(s)
          BY <1>0, WordSets DEF Protocols
        <5>2. p["skip-cert-verify"] = Absent
          BY <1>0, <3>1, <4>1, <5>1 DEF InWords
        <5>3. q["insecure"] = p["insecure"] /\ q["allowinsecure"] = p["allowinsecure"]
          BY <5>2, UriTable, AbsentIsNothing
        <5> QED  BY <5>2, <5>3, AbsentIsNothing DEF is_insecure, InsecureAliases
      <4>2. CASE e.dialect = "clash" /\ s \notin {"socks5", "tuic", "ss"}
        <5>1. "insecure" \notin ClashWords(s) /\ "allowinsecure" \notin ClashWords(s)
          BY <1>0, BlockKeySet DEF ClashWords, Protocols
        <5>2. p["insecure"] = Absent /\ p["allowinsecure"] = Absent
          BY <1>0, <3>1, <4>2, <5>1 DEF InWords
        <5>3. \E k \in {"insecure", "allowinsecure"} : k \in DOMAIN toggle_key(s)
          BY <1>0, <4>2, ToggleKeys DEF Protocols, TlsFamily
        <5>4. is_truthy_toggle(p["skip-cert-verify"]) => q["insecure"] = "1" \/ q["allowinsecure"] = "1"
          <6>1. \A k \in {"insecure", "allowinsecure"} :
                   q[k] = IF is_truthy_toggle(p["skip-cert-verify"]) /\ k \in DOMAIN toggle_key(s) THEN "1" ELSE p[k]
            BY UriTable
          <6>2. PICK k \in {"insecure", "allowinsecure"} : k \in DOMAIN toggle_key(s)
            BY <5>3
          <6>3. is_truthy_toggle(p["skip-cert-verify"]) => q[k] = "1"
            BY <6>1, <6>2
          <6> QED  BY <6>2, <6>3
        <5>5. is_truthy_toggle("1")
          BY DEF is_truthy_toggle
        <5> QED  BY <5>2, <5>4, <5>5, AbsentIsNothing DEF is_insecure, InsecureAliases
      <4> QED  BY <3>4, <4>1, <4>2
    <3> QED  BY <3>3, <3>4
  <2>4. {"alpn", "flow", "obfs", "obfs-password"} \subseteq
          UriKeys \ {network_key(s), "sni", "path", "host", "servicename", "fp", "pbk", "sid", "scy",
                                    "tls", "security", "insecure", "allowinsecure"}
    BY DEF UriKeys, network_key
  <2>5. q["alpn"] = p["alpn"] /\ q["flow"] = p["flow"] /\ q["obfs"] = p["obfs"] /\ q["obfs-password"] = p["obfs-password"]
    BY <2>4, UriTable
  <2>6. s = "vmess" => q["scy"] = Or(p["scy"], p["cipher"])
    BY UriTable DEF If
  <2> HIDE DEF q
  <2> QED  BY <2>1, <2>2, <2>3, <2>5, <2>6, UriTable DEF q
<1> QED  BY <1>1, <1>2

(* The fingerprint says what a client reads.                                *)
Alias(scheme, c) ==
    IF c = "sni" THEN "servername" ELSE IF c = network_key(scheme) THEN "network"
    ELSE IF c = "fp" THEN "client-fingerprint" ELSE IF c = "scy" /\ scheme = "vmess" THEN "cipher" ELSE c
KeyValue(e, c) == Or(e.params[c], e.params[Alias(e.scheme, c)])
AlpnListed == SecurityParams \ {"insecure"}

LEMMA CanonicalKeys ==
  ASSUME NEW scheme, NEW k
  PROVE  /\ k = "servername" => canonical_key(scheme, k) = "sni"
         /\ k = "network" => canonical_key(scheme, k) = network_key(scheme)
         /\ k = "client-fingerprint" => canonical_key(scheme, k) = "fp"
         /\ k = "cipher" /\ scheme = "vmess" => canonical_key(scheme, k) = "scy"
         /\ k \in InsecureAliases => canonical_key(scheme, k) = "insecure"
         /\ (k \notin {"servername", "network", "client-fingerprint"} \cup InsecureAliases /\ ~(k = "cipher" /\ scheme = "vmess"))
               => canonical_key(scheme, k) = k
<1>1. k = "servername" => canonical_key(scheme, k) = "sni"
  BY DEF canonical_key, InsecureAliases
<1>2. k = "network" => canonical_key(scheme, k) = network_key(scheme)
  BY DEF canonical_key, InsecureAliases
<1>3. k = "client-fingerprint" => canonical_key(scheme, k) = "fp"
  BY DEF canonical_key, InsecureAliases
<1>4. k = "cipher" /\ scheme = "vmess" => canonical_key(scheme, k) = "scy"
  BY DEF canonical_key, InsecureAliases
<1>5. k \in InsecureAliases => canonical_key(scheme, k) = "insecure"
  BY DEF canonical_key, InsecureAliases
<1>6. (k \notin {"servername", "network", "client-fingerprint"} \cup InsecureAliases /\ ~(k = "cipher" /\ scheme = "vmess"))
               => canonical_key(scheme, k) = k
  BY DEF canonical_key
<1> QED  BY <1>1, <1>2, <1>3, <1>4, <1>5, <1>6

\* Two spellings of one key, and only one of them stated.
LEMMA OneSource ==
  ASSUME NEW scheme, NEW c \in AlpnListed
  PROVE  /\ c \in ParamKeys /\ Alias(scheme, c) \in ParamKeys
         /\ c \notin InsecureAliases /\ Alias(scheme, c) \notin InsecureAliases
         /\ \A k \in ParamKeys : canonical_key(scheme, k) = c <=> k \in {c, Alias(scheme, c)}
<1>1. c \in {"security", "tls", "type", "net", "path", "host", "alpn", "pbk", "sid", "fp", "sni", "flow",
              "scy", "obfs", "obfs-password", "servicename",
              "ws-opts.path", "ws-opts.host", "reality-opts.public-key", "reality-opts.short-id"}
  BY DEF AlpnListed, SecurityParams
<1>2. network_key(scheme) \in {"type", "net"}
  BY DEF network_key
<1>3. c \in ParamKeys /\ Alias(scheme, c) \in ParamKeys
  BY <1>1, <1>2 DEF Alias, ParamKeys, UriKeys, ClashKeys
<1>4. c \notin InsecureAliases /\ Alias(scheme, c) \notin InsecureAliases
  BY <1>1, <1>2 DEF Alias, InsecureAliases
<1>5. ASSUME NEW k \in ParamKeys PROVE canonical_key(scheme, k) = c <=> k \in {c, Alias(scheme, c)}
  <2>1. CASE k \in {"servername", "network", "client-fingerprint"} \cup InsecureAliases \/ (k = "cipher" /\ scheme = "vmess")
    BY <1>1, <1>2, <2>1, CanonicalKeys DEF Alias, InsecureAliases
  <2>2. CASE ~(k \in {"servername", "network", "client-fingerprint"} \cup InsecureAliases \/ (k = "cipher" /\ scheme = "vmess"))
    BY <1>1, <1>2, <2>2, CanonicalKeys DEF Alias
  <2> QED  BY <2>1, <2>2
<1> QED  BY <1>3, <1>4, <1>5

LEMMA OneSpelling ==
  ASSUME NEW e, IsEntry(e), Spelled(e), NEW c \in AlpnListed, Alias(e.scheme, c) # c
  PROVE  e.params[c] = Absent \/ e.params[Alias(e.scheme, c)] = Absent
<1> DEFINE s == e.scheme
           W == IF e.dialect = "clash" THEN ClashWords(s) ELSE UriWords(s)
<1>1. \A k \in ParamKeys \ W : e.params[k] = Absent
  BY DEF Spelled, InWords
<1>2. s \in Protocols
  BY DEF Spelled
<1>3. c \notin UriWords(s) \/ Alias(s, c) \notin UriWords(s)
  BY <1>2, WordSets DEF Alias, Protocols
<1>4. c \notin ClashWords(s) \/ Alias(s, c) \notin ClashWords(s)
  BY <1>2, BlockKeySet DEF Alias, Protocols, ClashWords, network_key
<1>5. c \notin W \/ Alias(s, c) \notin W
  BY <1>3, <1>4
<1>6. c \in ParamKeys /\ Alias(s, c) \in ParamKeys
  BY OneSource
<1> HIDE DEF W
<1> QED  BY <1>1, <1>5, <1>6

\* The third part of a fingerprint, pair by pair.
Says(e) == {<<canonical_key(e.scheme, k), IF k \in InsecureAliases THEN "1" ELSE e.params[k]>> :
               k \in {x \in ParamKeys : e.params[x] # Absent /\ canonical_key(e.scheme, x) \in SecurityParams
                                       /\ (x \in InsecureAliases => is_truthy_toggle(e.params[x]))}}

LEMMA FingerprintParts ==
  ASSUME NEW e
  PROVE  fingerprint(e) = <<e.scheme, e.credential, Says(e)>>
BY DEF fingerprint, Says

LEMMA KeySays ==
  ASSUME NEW e, IsEntry(e), Spelled(e), NEW c \in AlpnListed, NEW v
  PROVE  <<c, v>> \in Says(e) <=> (v # Absent /\ v = KeyValue(e, c))
<1> DEFINE s == e.scheme
           p == e.params
           Stated == {x \in ParamKeys : p[x] # Absent /\ canonical_key(s, x) \in SecurityParams
                                       /\ (x \in InsecureAliases => is_truthy_toggle(p[x]))}
<1>1. c \in SecurityParams
  BY DEF AlpnListed
<1>2. <<c, v>> \in Says(e) <=> \E k \in Stated : canonical_key(s, k) = c /\ v = IF k \in InsecureAliases THEN "1" ELSE p[k]
  BY DEF Says
<1>3. \A k \in Stated : canonical_key(s, k) = c => k \in {c, Alias(s, c)} /\ k \notin InsecureAliases
  BY OneSource
<1>4. <<c, v>> \in Says(e) <=> \E k \in {c, Alias(s, c)} : p[k] # Absent /\ v = p[k]
  <2>1. ASSUME NEW k \in {c, Alias(s, c)}, p[k] # Absent PROVE k \in Stated /\ canonical_key(s, k) = c /\ k \notin InsecureAliases
    BY <1>1, <2>1, OneSource
  <2>2. ASSUME NEW k \in Stated, canonical_key(s, k) = c PROVE k \in {c, Alias(s, c)} /\ k \notin InsecureAliases /\ p[k] # Absent
    BY <1>3, <2>2
  <2> HIDE DEF Stated
  <2>3. ASSUME NEW k \in Stated, canonical_key(s, k) = c, v = IF k \in InsecureAliases THEN "1" ELSE p[k]
        PROVE  \E x \in {c, Alias(s, c)} : p[x] # Absent /\ v = p[x]
    BY <2>2, <2>3
  <2>4. ASSUME NEW k \in {c, Alias(s, c)}, p[k] # Absent, v = p[k]
        PROVE  \E x \in Stated : canonical_key(s, x) = c /\ v = IF x \in InsecureAliases THEN "1" ELSE p[x]
    BY <2>1, <2>4
  <2> QED  BY <1>2, <2>3, <2>4
<1> QED  BY <1>4, OneSpelling DEF KeyValue, Or

LEMMA InsecureSays ==
  ASSUME NEW e, IsEntry(e)
  PROVE  <<"insecure", "1">> \in Says(e) <=> is_insecure(e.params)
<1> DEFINE s == e.scheme
           p == e.params
<1>1. "insecure" \in SecurityParams /\ InsecureAliases \subseteq ParamKeys
  BY DEF SecurityParams, InsecureAliases, ParamKeys, UriKeys, ClashKeys
<1>2. \A k \in ParamKeys : canonical_key(s, k) = "insecure" <=> k \in InsecureAliases
  <2> SUFFICES ASSUME NEW k \in ParamKeys PROVE canonical_key(s, k) = "insecure" <=> k \in InsecureAliases
    OBVIOUS
  <2>1. CASE k \in {"servername", "network", "client-fingerprint"} \cup InsecureAliases \/ (k = "cipher" /\ s = "vmess")
    BY <2>1, CanonicalKeys DEF InsecureAliases, network_key
  <2>2. CASE ~(k \in {"servername", "network", "client-fingerprint"} \cup InsecureAliases \/ (k = "cipher" /\ s = "vmess"))
    BY <2>2, CanonicalKeys DEF InsecureAliases
  <2> QED  BY <2>1, <2>2
<1>3. \A k : is_truthy_toggle(p[k]) => p[k] # Absent
  BY AbsentIsNothing
<1>4. <<"insecure", "1">> \in Says(e) <=> \E k \in InsecureAliases : is_truthy_toggle(p[k])
  BY <1>1, <1>2, <1>3 DEF Says
<1> QED  BY <1>4 DEF is_insecure

\* Two spelled entries under one fingerprint state the same.
LEMMA OneKeyOneValue ==
  ASSUME NEW e, IsEntry(e), Spelled(e), NEW f, IsEntry(f), Spelled(f), fingerprint(e) = fingerprint(f)
  PROVE  /\ e.scheme = f.scheme /\ e.credential = f.credential
         /\ is_insecure(e.params) <=> is_insecure(f.params)
         /\ \A c \in AlpnListed : KeyValue(e, c) = KeyValue(f, c)
<1>1. e.scheme = f.scheme /\ e.credential = f.credential /\ Says(e) = Says(f)
  BY FingerprintParts
<1>2. is_insecure(e.params) <=> is_insecure(f.params)
  BY <1>1, InsecureSays
<1>3. ASSUME NEW c \in AlpnListed PROVE KeyValue(e, c) = KeyValue(f, c)
  <2>1. \A v : (v # Absent /\ v = KeyValue(e, c)) <=> (v # Absent /\ v = KeyValue(f, c))
    BY <1>1, KeySays
  <2> QED  BY <2>1
<1> QED  BY <1>1, <1>2, <1>3

\* A node, from what a client of the URI list reads.
LEMMA NodesEqual ==
  ASSUME NEW e, NEW f, e.scheme = f.scheme, Split(e.scheme, e.credential) = Split(f.scheme, f.credential),
         TlsOf(e) = TlsOf(f), NetworkOf(e) = NetworkOf(f),
         TlsOf(e) # "none" => /\ UriParams(e)["sni"] = UriParams(f)["sni"]
                              /\ is_insecure(UriParams(e)) <=> is_insecure(UriParams(f))
                              /\ UriParams(e)["fp"] = UriParams(f)["fp"] /\ UriParams(e)["alpn"] = UriParams(f)["alpn"],
         TlsOf(e) = "reality" => UriParams(e)["pbk"] = UriParams(f)["pbk"] /\ UriParams(e)["sid"] = UriParams(f)["sid"],
         NetworkOf(e) \in {"ws", "http"} => UriParams(e)["path"] = UriParams(f)["path"] /\ UriParams(e)["host"] = UriParams(f)["host"],
         NetworkOf(e) = "grpc" => Or(UriParams(e)["servicename"], If(e.scheme = "vmess", UriParams(e)["path"]))
                                   = Or(UriParams(f)["servicename"], If(e.scheme = "vmess", UriParams(f)["path"])),
         e.scheme = "vless" => UriParams(e)["flow"] = UriParams(f)["flow"],
         e.scheme = "vmess" => Or(UriParams(e)["scy"], "auto") = Or(UriParams(f)["scy"], "auto"),
         UriParams(e)["obfs"] = UriParams(f)["obfs"],
         UriParams(e)["obfs"] # Absent => UriParams(e)["obfs-password"] = UriParams(f)["obfs-password"]
  PROVE  NodeOf(e) = NodeOf(f)
<1> DEFINE p == UriParams(e)
           q == UriParams(f)
           net == NetworkOf(e)
           tls == TlsOf(e)
<1>1. /\ If(tls # "none", p["sni"]) = If(tls # "none", q["sni"])
      /\ If(tls # "none", p["fp"]) = If(tls # "none", q["fp"]) /\ If(tls # "none", p["alpn"]) = If(tls # "none", q["alpn"])
      /\ If(tls = "reality", p["pbk"]) = If(tls = "reality", q["pbk"]) /\ If(tls = "reality", p["sid"]) = If(tls = "reality", q["sid"])
  BY DEF If
<1>2. (tls = "none" \/ ~is_insecure(p)) = (tls = "none" \/ ~is_insecure(q))
  OBVIOUS
<1>3. /\ If(net \in {"ws", "http"}, p["path"]) = If(net \in {"ws", "http"}, q["path"])
      /\ If(net \in {"ws", "http"}, p["host"]) = If(net \in {"ws", "http"}, q["host"])
  BY DEF If
<1>4. If(net = "grpc", Or(p["servicename"], If(e.scheme = "vmess", p["path"])))
        = If(net = "grpc", Or(q["servicename"], If(e.scheme = "vmess", q["path"])))
  BY DEF If
<1>5. /\ If(e.scheme = "vless", p["flow"]) = If(e.scheme = "vless", q["flow"])
      /\ If(e.scheme = "vmess", Or(p["scy"], "auto")) = If(e.scheme = "vmess", Or(q["scy"], "auto"))
      /\ <<p["obfs"], If(p["obfs"] # Absent, p["obfs-password"])>> = <<q["obfs"], If(q["obfs"] # Absent, q["obfs-password"])>>
  BY DEF If
<1>6. NetworkOf(f) = net /\ TlsOf(f) = tls
  OBVIOUS
<1> HIDE DEF p, q, net, tls
<1> QED  BY <1>1, <1>2, <1>3, <1>4, <1>5, <1>6 DEF NodeOf, p, q, net, tls

LEMMA ForeignWords ==
  ASSUME NEW e, IsEntry(e), Spelled(e), e.dialect # "clash", NEW k \in ClashKeys \ {"plugin-opts"}
  PROVE  e.params[k] = Absent
<1>1. k \in ParamKeys \ UriWords(e.scheme)
  BY WordSets DEF Spelled, Protocols, ClashKeys, ParamKeys
<1> QED  BY <1>1 DEF Spelled, InWords

LEMMA NoServerName ==
  ASSUME NEW e, IsEntry(e), Spelled(e)
  PROVE  UriParams(e)["servername"] = Absent
<1>1. "servername" \in ClashKeys \ {"plugin-opts"}
  BY DEF ClashKeys
<1> QED  BY <1>1, ForeignWords, UriTable DEF UriParams

\* A row stands for one node.
LEMMA NodeFromKey ==
  ASSUME NEW e, IsEntry(e), Spelled(e), Keyed(e), NEW f, IsEntry(f), Spelled(f), Keyed(f), fingerprint(e) = fingerprint(f)
  PROVE  NodeOf(e) = NodeOf(f)
<1> DEFINE s == e.scheme
           u(x) == UriParams(x)
<1>1. e.scheme = f.scheme /\ e.credential = f.credential /\ (is_insecure(e.params) <=> is_insecure(f.params))
  BY OneKeyOneValue
<1>2. s \in Protocols \ {"ss"}
  BY DEF Spelled, Keyed
<1>3. \A c \in AlpnListed : KeyValue(e, c) = KeyValue(f, c)
  BY OneKeyOneValue
<1>4. {network_key(s), "sni", "fp", "path", "host", "servicename", "alpn", "flow", "pbk", "sid", "obfs", "obfs-password",
       "security", "tls", "ws-opts.path", "ws-opts.host", "reality-opts.public-key", "reality-opts.short-id", "scy"} \subseteq AlpnListed
  BY DEF AlpnListed, SecurityParams, network_key
\* What two keys give together, of either entry.
<1>5. ASSUME NEW x, x.scheme = s
      PROVE  /\ KeyValue(x, network_key(s)) = network_of(x)
             /\ KeyValue(x, "sni") = Or(x.params["sni"], x.params["servername"])
             /\ KeyValue(x, "fp") = Or(x.params["fp"], x.params["client-fingerprint"])
             /\ s = "vmess" => KeyValue(x, "scy") = Or(x.params["scy"], x.params["cipher"])
             /\ \A c \in {"path", "host", "servicename", "alpn", "flow", "pbk", "sid", "obfs", "obfs-password", "security", "tls",
                          "ws-opts.path", "ws-opts.host", "reality-opts.public-key", "reality-opts.short-id"} :
                   KeyValue(x, c) = x.params[c]
  BY <1>5 DEF KeyValue, Alias, network_of, network_key, Or
<1>6. /\ network_of(e) = network_of(f)
      /\ Or(e.params["sni"], e.params["servername"]) = Or(f.params["sni"], f.params["servername"])
      /\ Or(e.params["fp"], e.params["client-fingerprint"]) = Or(f.params["fp"], f.params["client-fingerprint"])
      /\ s = "vmess" => Or(e.params["scy"], e.params["cipher"]) = Or(f.params["scy"], f.params["cipher"])
      /\ \A c \in {"path", "host", "servicename", "alpn", "flow", "pbk", "sid", "obfs", "obfs-password", "security", "tls",
                   "ws-opts.path", "ws-opts.host", "reality-opts.public-key", "reality-opts.short-id"} : e.params[c] = f.params[c]
  BY <1>1, <1>3, <1>4, <1>5
<1>7. reality_public_key(e.params) = reality_public_key(f.params) /\ reality_short_id(e.params) = reality_short_id(f.params)
      /\ (TlsStated(e.params) <=> TlsStated(f.params))
  BY <1>6 DEF reality_public_key, reality_short_id, TlsStated
<1>8. /\ u(e)["sni"] = u(f)["sni"] /\ u(e)["fp"] = u(f)["fp"] /\ u(e)["alpn"] = u(f)["alpn"] /\ u(e)["flow"] = u(f)["flow"]
      /\ u(e)["pbk"] = u(f)["pbk"] /\ u(e)["sid"] = u(f)["sid"]
      /\ u(e)["obfs"] = u(f)["obfs"] /\ u(e)["obfs-password"] = u(f)["obfs-password"]
      /\ s = "vmess" => u(e)["scy"] = u(f)["scy"]
      /\ u(e)[network_key(s)] = u(f)[network_key(s)] /\ u(e)[network_key(s)] = network_of(e)
  BY <1>1, <1>6, <1>7, UriReading
<1>9. is_insecure(u(e)) <=> is_insecure(u(f))
  BY <1>1, <1>2, UriReading DEF Keyed
<1>10. NetworkOf(e) = NetworkOf(f)
  BY <1>1, <1>8 DEF NetworkOf
<1>11. TlsOf(e) = TlsOf(f)
  <2>1. s \in TlsFamily => u(e)["security"] = u(f)["security"] /\ u(e)["tls"] = u(f)["tls"]
    BY <1>1, <1>6, <1>7, UriReading DEF If
  <2>2. s \notin TlsFamily => (TlsStated(u(e)) <=> TlsStated(u(f)))
    BY <1>1, <1>7, UriReading
  <2>3. u(e)["servername"] = Absent /\ u(f)["servername"] = Absent
    BY <1>1, NoServerName
  <2>4. s = "vless" => (wants_tls(u(e)) <=> wants_tls(u(f)))
    BY <1>8, <1>9, <2>1, <2>3 DEF TlsFamily, wants_tls, TlsStated, SecurityIs, sni_of
  <2>5. CASE s \in TlsFamily
    BY <1>1, <2>1, <2>4, <2>5 DEF TlsOf, TlsFamily, SecurityIs
  <2>6. CASE s \notin TlsFamily
    BY <1>1, <1>2, <2>2, <2>6 DEF TlsOf, TlsFamily, Protocols
  <2> QED  BY <2>5, <2>6
\* The blocks of a Clash item that the key leaves out are not its network's.
<1>12. ASSUME NEW x, IsEntry(x), Spelled(x), Keyed(x)
       PROVE  /\ u(x)["path"] = Or(x.params["path"], x.params["ws-opts.path"])
              /\ u(x)["host"] = Or(x.params["host"], x.params["ws-opts.host"])
              /\ NetworkOf(x) = "grpc" => u(x)["servicename"] = x.params["servicename"]
  <2>1. {"h2-opts.path", "http-opts.path", "h2-opts.host", "http-opts.host", "grpc-opts.service"} \subseteq ClashKeys \ {"plugin-opts"}
    BY DEF ClashKeys
  <2>2. CASE x.dialect # "clash"
    <3>1. \A k \in ClashKeys \ {"plugin-opts"} : x.params[k] = Absent
      BY <1>12, <2>2, ForeignWords
    <3>2. /\ x.params["h2-opts.path"] = Absent /\ x.params["http-opts.path"] = Absent
          /\ x.params["h2-opts.host"] = Absent /\ x.params["http-opts.host"] = Absent
          /\ x.params["grpc-opts.service"] = Absent
      BY <2>1, <3>1
    <3> QED  BY <1>12, <3>2, UriReading DEF Or
  <2>3. CASE x.dialect = "clash"
    <3>1. NetworkOf(x) \notin {"grpc", "http"}
      BY <1>12, <2>3 DEF Keyed
    <3>2. network_of(x) \notin {"h2", "http"}
      BY <1>12, <3>1, UriReading, AbsentIsNothing DEF NetworkOf, Or
    <3>3. x.params["network"] \notin {"h2", "http"}
      <4>1. x.params[network_key(x.scheme)] = Absent
        <5>1. network_key(x.scheme) \notin ClashWords(x.scheme) /\ network_key(x.scheme) \in ParamKeys
          BY <1>12, BlockKeySet DEF Spelled, Protocols, network_key, ClashWords, ParamKeys, UriKeys
        <5> QED  BY <1>12, <2>3, <5>1 DEF Spelled, InWords
      <4> QED  BY <3>2, <4>1 DEF network_of, Or
    <3>4. /\ x.params["h2-opts.path"] = Absent /\ x.params["http-opts.path"] = Absent
          /\ x.params["h2-opts.host"] = Absent /\ x.params["http-opts.host"] = Absent
      BY <1>12, <2>3, <3>3 DEF Spelled, OneNetwork, Blocks
    <3> QED  BY <1>12, <3>1, <3>4, UriReading DEF Or
  <2> QED  BY <2>2, <2>3
<1>13. u(e)["path"] = u(f)["path"] /\ u(e)["host"] = u(f)["host"]
       /\ (NetworkOf(e) = "grpc" => u(e)["servicename"] = u(f)["servicename"])
  BY <1>6, <1>10, <1>12
<1> HIDE DEF u
<1> QED  BY <1>1, <1>8, <1>9, <1>10, <1>11, <1>13, NodesEqual DEF u

-----------------------------------------------------------------------------
(* What a hop hands on.                                                     *)

LEMMA RowsChecked == RepublishTypeOK => RowsAreCheckedAsTheyAre
<1> SUFFICES ASSUME RepublishTypeOK PROVE RowsAreNodes /\ ProbeSeesTheNode
  BY DEF RowsAreCheckedAsTheyAre
<1>1. RowsAreNodes
  <2> SUFFICES ASSUME ~current.lost, Keyed(current), fingerprint(current) \in DOMAIN Rows
               PROVE  Rows[fingerprint(current)] = {NodeOf(current)}
    BY DEF RowsAreNodes
  <2>1. IsEntry(current) /\ Spelled(current)
    BY DEF RepublishTypeOK
  <2> DEFINE key == fingerprint(current)
             stored == {<<fingerprint(e), NodeOf(e)>> : e \in {x \in Feeds : Keyed(x)}}
             nodes(k) == {row[2] : row \in {x \in stored : x[1] = k}}
  <2>2. Rows = [k \in {row[1] : row \in stored} |-> nodes(k)]
    BY DEF Rows
  <2>3. key \in {row[1] : row \in stored} /\ Rows[key] = nodes(key)
    BY <2>2
  <2>4. \A x \in stored : x[1] = key => x[2] = NodeOf(current)
    <3> SUFFICES ASSUME NEW e \in Feeds, Keyed(e), fingerprint(e) = key PROVE NodeOf(e) = NodeOf(current)
      OBVIOUS
    <3>1. IsEntry(e) /\ Spelled(e)
      BY EntryAssumption, SpellingAssumption
    <3> QED  BY <2>1, <3>1, NodeFromKey
  <2>5. \E x \in stored : x[1] = key
    BY <2>3
  <2> HIDE DEF key, stored
  <2>6. nodes(key) = {NodeOf(current)}
    BY <2>4, <2>5
  <2> QED  BY <2>3, <2>6 DEF key
<1>2. ProbeSeesTheNode
  <2>1. CASE ~current.lost /\ clash_is_supported(current.scheme)
    BY <2>1, ProbeMeetsEntry DEF RepublishTypeOK
  <2>2. CASE ~(~current.lost /\ clash_is_supported(current.scheme))
    BY <2>2 DEF ProbeSeesTheNode
  <2> QED  BY <2>1, <2>2
<1> QED  BY <1>1, <1>2

\* What a writer hands on, in any format.
LEMMA Handed ==
  ASSUME NEW e, IsEntry(e), Spelled(e), NEW format \in {"url_list", "clash", "singbox"}, ~Serialized(format, e).lost
  PROVE  LET r == Serialized(format, e)
         IN  /\ IsEntry(r) /\ Spelled(r) /\ r.scheme = e.scheme
             /\ Split(r.scheme, r.credential) = Split(e.scheme, e.credential)
             /\ format = "url_list" => r.dialect = "uri" /\ UriParams(r) = UriParams(e)
             /\ format = "clash" => r.dialect = "clash" /\ clash_is_supported(e.scheme) /\ r.params = entry_to_clash(e)
             /\ format = "singbox" => /\ r.dialect = "singbox" /\ singbox_is_supported(e.scheme)
                                      /\ r.params = parse_outbound(e.scheme, entry_to_outbound(e))
<1> DEFINE r == Serialized(format, e)
<1>0. DOMAIN e = {"scheme", "dialect", "credential", "params", "lost"} /\ WholeCredential(e.scheme, e.credential)
  BY DEF IsEntry, Spelled
<1>1. IsEntry(r) /\ Spelled(r) /\ r.scheme = e.scheme
  BY SerializedIsEntry, HopSpelled
<1>2. CASE format = "url_list"
  <2>1. r = via_uri(e)
    BY <1>2 DEF Serialized
  <2>2. DOMAIN canonical_uri_entry(e) = DOMAIN e /\ canonical_uri_entry(e).scheme = e.scheme
        /\ canonical_uri_entry(e).credential = e.credential
    BY <1>0 DEF canonical_uri_entry
  <2>3. /\ r.dialect = "uri" /\ r.params = UriParams(e)
        /\ r.credential = IF e.scheme = "ss" THEN MethodAndPassword(e.credential) ELSE e.credential
    BY <1>0, <2>1, <2>2 DEF via_uri, UriParams
  <2>4. Split(r.scheme, r.credential) = Split(e.scheme, e.credential)
    BY <1>0, <1>1, <2>3, CredentialsReadBack
  <2>5. UriParams(r) = UriParams(e)
    BY <2>3 DEF UriParams
  <2> QED  BY <1>1, <1>2, <2>3, <2>4, <2>5
<1>3. CASE format = "clash"
  <2>1. r = via_clash(e)
    BY <1>3 DEF Serialized
  <2>2. /\ r.dialect = "clash" /\ (r.lost <=> ~clash_is_supported(e.scheme))
        /\ r.params = IF clash_is_supported(e.scheme) THEN entry_to_clash(e) ELSE e.params
        /\ r.credential = clash_credential(e.scheme, Split(e.scheme, e.credential))
    BY <1>0, <2>1 DEF via_clash
  <2>3. Split(r.scheme, r.credential) = Split(e.scheme, e.credential)
    BY <1>0, <1>1, <2>2, CredentialsReadBack
  <2> QED  BY <1>1, <1>3, <2>2, <2>3
<1>4. CASE format = "singbox"
  <2>1. r = via_singbox(e)
    BY <1>4 DEF Serialized
  <2>2. /\ r.dialect = "singbox" /\ (r.lost <=> ~singbox_is_supported(e.scheme))
        /\ r.params = IF singbox_is_supported(e.scheme) THEN parse_outbound(e.scheme, entry_to_outbound(e)) ELSE e.params
        /\ r.credential = Split(e.scheme, e.credential)
    BY <1>0, <2>1 DEF via_singbox
  <2>3. Split(r.scheme, r.credential) = Split(e.scheme, e.credential)
    BY <1>0, <1>1, <2>2, CredentialsReadBack
  <2> QED  BY <1>1, <1>4, <2>2, <2>3
<1> QED  BY <1>2, <1>3, <1>4

\* A REALITY node is one with a public key.
LEMMA RealityReading ==
  ASSUME NEW e, IsEntry(e), Spelled(e)
  PROVE  TlsOf(e) = "reality" <=> (e.scheme \in TlsFamily /\ reality_public_key(e.params) # Absent)
<1> DEFINE p == e.params
           u == UriParams(e)
<1>1. CASE e.scheme \in TlsFamily
  <2>1. u["security"] = IF reality_public_key(p) # Absent THEN "reality" ELSE Or(p["security"], If(TlsStated(p), "tls"))
    BY <1>1, UriReading
  <2>2. p["security"] = "reality" => reality_public_key(p) # Absent
    BY <1>1, RealityKey DEF SecurityIs
  <2>3. SecurityIs(u, "reality") <=> reality_public_key(p) # Absent
    BY <2>1, <2>2, AbsentIsNothing DEF SecurityIs, Or, If
  <2> HIDE DEF p, u
  <2>4. TlsOf(e) = "reality" <=> SecurityIs(u, "reality")
    BY <1>1 DEF TlsOf, TlsFamily, u
  <2> QED  BY <1>1, <2>3, <2>4 DEF p
<1>2. CASE e.scheme \notin TlsFamily
  BY <1>2 DEF TlsOf, TlsFamily, Spelled, Protocols
<1> QED  BY <1>1, <1>2

\* Its keys stay on any hop.
LEMMA RealityHop ==
  ASSUME NEW e, IsEntry(e), Spelled(e), NEW format \in {"url_list", "clash", "singbox"}, ~Serialized(format, e).lost,
         TlsOf(e) = "reality"
  PROVE  LET r == Serialized(format, e)
         IN  TlsOf(r) = "reality" /\ UriParams(r)["pbk"] = UriParams(e)["pbk"] /\ UriParams(r)["sid"] = UriParams(e)["sid"]
<1> DEFINE r == Serialized(format, e)
           p == e.params
           f == r.params
<1>1. e.scheme \in TlsFamily /\ reality_public_key(p) # Absent
  BY RealityReading
<1>2. IsEntry(r) /\ Spelled(r) /\ r.scheme = e.scheme
  BY Handed
<1>3. UriParams(e)["pbk"] = reality_public_key(p) /\ UriParams(e)["sid"] = reality_short_id(p)
  BY UriReading
<1>4. UriParams(r)["pbk"] = reality_public_key(f) /\ UriParams(r)["sid"] = reality_short_id(f)
  BY <1>2, UriReading
<1>5. network_of(e) \in Networks
  BY DEF Spelled, OneNetwork
<1>6. CASE format = "url_list"
  <2>1. UriParams(r) = UriParams(e)
    BY <1>6, Handed
  <2> HIDE DEF r
  <2> QED  BY <1>1, <1>2, <1>3, <1>4, <2>1, RealityReading DEF r
<1>7. CASE format = "clash"
  <2>1. f = entry_to_clash(e)
    BY <1>7, Handed
  <2>2. f["reality-opts.public-key"] = reality_public_key(p) /\ f["reality-opts.short-id"] = reality_short_id(p)
    BY <1>1, <1>5, <2>1, ClashVless, ClashTrojan DEF TlsFamily
  <2>3. f["pbk"] = Absent /\ f["sid"] = Absent
    <3>1. "pbk" \in ParamKeys \ ClashWords(e.scheme) /\ "sid" \in ParamKeys \ ClashWords(e.scheme)
      BY <1>1, BlockKeySet DEF ParamKeys, UriKeys, ClashWords, TlsFamily
    <3>2. r.dialect = "clash"
      BY <1>7, Handed
    <3> HIDE DEF r
    <3> QED  BY <1>2, <3>1, <3>2 DEF Spelled, InWords
  <2>4. reality_public_key(f) = reality_public_key(p) /\ reality_short_id(f) = reality_short_id(p)
    BY <2>2, <2>3 DEF reality_public_key, reality_short_id, Or
  <2> HIDE DEF r
  <2> QED  BY <1>1, <1>2, <1>3, <1>4, <2>4, RealityReading DEF r
<1>8. CASE format = "singbox"
  <2>1. f = parse_outbound(e.scheme, entry_to_outbound(e)) /\ r.dialect = "singbox"
    BY <1>8, Handed
  <2>2. f["pbk"] = reality_public_key(p) /\ f["sid"] = reality_short_id(p)
    BY <1>1, <1>5, <2>1, SingboxVless, SingboxTrojan DEF TlsFamily, If
  <2>3. f["reality-opts.public-key"] = Absent /\ f["reality-opts.short-id"] = Absent
    <3> HIDE DEF r
    <3> QED  BY <1>2, <2>1, ForeignWords DEF ClashKeys
  <2>4. reality_public_key(f) = reality_public_key(p) /\ reality_short_id(f) = reality_short_id(p)
    BY <2>2, <2>3 DEF reality_public_key, reality_short_id, Or
  <2> HIDE DEF r
  <2> QED  BY <1>1, <1>2, <1>3, <1>4, <2>4, RealityReading DEF r
<1> QED  BY <1>6, <1>7, <1>8

\* An entry in the URI vocabulary is read as it stands.
LEMMA PlainReading ==
  ASSUME NEW e, IsEntry(e), Spelled(e), e.dialect # "clash"
  PROVE  LET p == e.params
             u == UriParams(e)
             s == e.scheme
         IN  /\ u[network_key(s)] = network_of(e) /\ network_of(e) = p[network_key(s)]
             /\ u["sni"] = p["sni"] /\ u["path"] = p["path"] /\ u["host"] = p["host"]
             /\ u["servicename"] = p["servicename"] /\ u["fp"] = p["fp"]
             /\ u["pbk"] = p["pbk"] /\ u["sid"] = p["sid"] /\ (s = "vmess" => u["scy"] = p["scy"])
             /\ u["alpn"] = p["alpn"] /\ u["flow"] = p["flow"] /\ u["obfs"] = p["obfs"]
             /\ u["obfs-password"] = p["obfs-password"]
             /\ s \in TlsFamily => /\ u["tls"] = Absent /\ p["tls"] = Absent /\ u["security"] = p["security"]
                                   /\ (p["pbk"] # Absent <=> p["security"] = "reality")
             /\ s \notin TlsFamily => (TlsStated(u) <=> TlsStated(p))
             /\ is_insecure(u) <=> is_insecure(p)
             /\ \A k \in ClashKeys \ {"plugin-opts"} : p[k] = Absent
             /\ reality_public_key(p) = p["pbk"] /\ reality_short_id(p) = p["sid"]
<1> DEFINE p == e.params
           u == UriParams(e)
           s == e.scheme
<1>1. \A k \in ClashKeys \ {"plugin-opts"} : p[k] = Absent
  BY ForeignWords
<1>2. /\ p["servername"] = Absent /\ p["network"] = Absent /\ p["client-fingerprint"] = Absent /\ p["cipher"] = Absent
      /\ p["ws-opts.path"] = Absent /\ p["ws-opts.host"] = Absent /\ p["grpc-opts.service"] = Absent
      /\ p["h2-opts.path"] = Absent /\ p["h2-opts.host"] = Absent /\ p["http-opts.path"] = Absent /\ p["http-opts.host"] = Absent
      /\ p["reality-opts.public-key"] = Absent /\ p["reality-opts.short-id"] = Absent
  BY <1>1 DEF ClashKeys
<1>3. reality_public_key(p) = p["pbk"] /\ reality_short_id(p) = p["sid"] /\ network_of(e) = p[network_key(s)]
  BY <1>2 DEF reality_public_key, reality_short_id, Or, network_of
<1>4. s \in TlsFamily => p["tls"] = Absent /\ (p["pbk"] # Absent <=> p["security"] = "reality")
  <2>1. s \in TlsFamily => "tls" \in ParamKeys \ UriWords(s)
    BY WordSets DEF TlsFamily, ParamKeys, UriKeys
  <2> QED  BY <2>1 DEF Spelled, InWords, OneSecurity, SecurityIs
<1>5. s \in TlsFamily => u["security"] = p["security"]
  <2>1. ~TlsStated(p) \/ s \notin TlsFamily
    BY <1>4, AbsentIsNothing DEF TlsStated
  <2> QED  BY <1>3, <1>4, <2>1, UriReading DEF Or, If
<1>6. /\ u["sni"] = p["sni"] /\ u["path"] = p["path"] /\ u["host"] = p["host"]
      /\ u["servicename"] = p["servicename"] /\ u["fp"] = p["fp"]
      /\ (s = "vmess" => u["scy"] = p["scy"])
  BY <1>2, UriReading DEF Or
<1> QED  BY <1>1, <1>3, <1>4, <1>5, <1>6, UriReading

\* The transport of an item is the transport of its entry.
LEMMA ClashKeepsNetwork ==
  ASSUME NEW e, IsEntry(e), Spelled(e), e.dialect # "clash", e.scheme \in {"vless", "vmess", "trojan"},
         ~Serialized("clash", e).lost
  PROVE  LET r == Serialized("clash", e)
             u == UriParams(e)
             v == UriParams(r)
         IN  /\ NetworkOf(r) = NetworkOf(e)
             /\ NetworkOf(e) \in {"ws", "http"} => v["path"] = u["path"] /\ v["host"] = u["host"]
             /\ NetworkOf(e) = "grpc" => v["path"] = Absent /\ v["servicename"] = Or(u["servicename"], If(e.scheme = "vmess", u["path"]))
<1> DEFINE r == Serialized("clash", e)
           f == r.params
           p == e.params
           t == put_transport(e)
           net == network_of(e)
           s == e.scheme
<1>1. IsEntry(r) /\ Spelled(r) /\ r.scheme = s /\ r.dialect = "clash" /\ f = entry_to_clash(e)
  BY Handed
<1>2. net \in Networks
  BY DEF Spelled, OneNetwork
<1>3. \A k \in {"network"} \cup BlockKeys : f[k] = Read(t, k)
  BY <1>1, <1>2, ClashVless, ClashVmess, ClashTrojan
<1>4. f["type"] = Absent /\ f["net"] = Absent /\ f["path"] = Absent /\ f["host"] = Absent /\ f["servicename"] = Absent
  <2>1. {"type", "net", "path", "host", "servicename"} \subseteq ParamKeys \ ClashWords(s)
    BY BlockKeySet DEF ParamKeys, UriKeys, ClashWords
  <2> HIDE DEF r
  <2> QED  BY <1>1, <2>1 DEF Spelled, InWords
<1>5. network_of(r) = Read(t, "network")
  BY <1>1, <1>3, <1>4 DEF network_of, network_key, Or
<1>6. /\ UriParams(r)[network_key(s)] = Read(t, "network")
      /\ UriParams(r)["path"] = Or(Read(t, "ws-opts.path"), Or(Read(t, "h2-opts.path"), Read(t, "http-opts.path")))
      /\ UriParams(r)["host"] = Or(Read(t, "ws-opts.host"), Or(Read(t, "h2-opts.host"), Read(t, "http-opts.host")))
      /\ UriParams(r)["servicename"] = Read(t, "grpc-opts.service")
  <2>1. /\ f["ws-opts.path"] = Read(t, "ws-opts.path") /\ f["h2-opts.path"] = Read(t, "h2-opts.path")
        /\ f["http-opts.path"] = Read(t, "http-opts.path") /\ f["ws-opts.host"] = Read(t, "ws-opts.host")
        /\ f["h2-opts.host"] = Read(t, "h2-opts.host") /\ f["http-opts.host"] = Read(t, "http-opts.host")
        /\ f["grpc-opts.service"] = Read(t, "grpc-opts.service")
    BY <1>3, BlockKeySet
  <2> HIDE DEF r
  <2>2. /\ UriParams(r)["path"] = Or(f["ws-opts.path"], Or(f["h2-opts.path"], f["http-opts.path"]))
        /\ UriParams(r)["host"] = Or(f["ws-opts.host"], Or(f["h2-opts.host"], f["http-opts.host"]))
        /\ UriParams(r)["servicename"] = f["grpc-opts.service"]
    BY <1>1, <1>4, UriReading DEF Or
  <2>3. UriParams(r)[network_key(s)] = Read(t, "network")
    BY <1>1, <1>5, UriReading
  <2> QED  BY <2>1, <2>2, <2>3
<1>7. /\ UriParams(e)[network_key(s)] = net /\ UriParams(e)["path"] = p["path"] /\ UriParams(e)["host"] = p["host"]
      /\ UriParams(e)["servicename"] = p["servicename"]
      /\ p["ws-opts.path"] = Absent /\ p["ws-opts.host"] = Absent /\ p["grpc-opts.service"] = Absent
      /\ p["h2-opts.path"] = Absent /\ p["h2-opts.host"] = Absent
  <2>1. {"ws-opts.path", "ws-opts.host", "grpc-opts.service", "h2-opts.path", "h2-opts.host"} \subseteq ClashKeys \ {"plugin-opts"}
    BY DEF ClashKeys
  <2> QED  BY <2>1, PlainReading
<1> DEFINE h2 == net = "h2" \/ (net = "http" /\ s # "vmess")
           http == net = "http" /\ s = "vmess"
<1>8. /\ Read(t, "network") = IF net \in {Absent, "tcp"} THEN Absent ELSE IF h2 THEN "h2" ELSE net
      /\ Read(t, "ws-opts.path") = If(net = "ws", p["path"]) /\ Read(t, "ws-opts.host") = If(net = "ws", p["host"])
      /\ Read(t, "grpc-opts.service") = If(net = "grpc", Or(p["servicename"], If(s = "vmess", p["path"])))
      /\ Read(t, "h2-opts.path") = If(h2, p["path"]) /\ Read(t, "h2-opts.host") = If(h2, p["host"])
      /\ Read(t, "http-opts.path") = If(http, p["path"]) /\ Read(t, "http-opts.host") = If(http, p["host"])
  BY <1>2, <1>7, TransportTable DEF Or
<1> HIDE DEF r, t
<1>9. NetworkOf(e) = IF net \in {Absent, "tcp"} THEN "tcp" ELSE IF net = "h2" THEN "http" ELSE net
  BY <1>7 DEF NetworkOf, Or
<1>10. NetworkOf(r) = NetworkOf(e)
  BY <1>1, <1>2, <1>6, <1>8, <1>9, AbsentIsNothing DEF NetworkOf, Or, Networks
<1>11. NetworkOf(e) \in {"ws", "http"} => net = "ws" \/ h2 \/ http
  BY <1>2, <1>9 DEF Networks
<1>12. NetworkOf(e) = "grpc" => net = "grpc"
  BY <1>2, <1>9 DEF Networks
<1>13. (net = "ws" \/ h2 \/ http) => UriParams(r)["path"] = p["path"] /\ UriParams(r)["host"] = p["host"]
  BY <1>2, <1>6, <1>8 DEF Or, If
<1>14. net = "grpc" => UriParams(r)["path"] = Absent /\ UriParams(r)["servicename"] = Or(p["servicename"], If(s = "vmess", p["path"]))
  BY <1>6, <1>8 DEF Or, If
<1> QED  BY <1>7, <1>10, <1>11, <1>12, <1>13, <1>14 DEF r

\* A scheme that has no transport, and what it leaves out.
LEMMA NoTransport ==
  ASSUME NEW e, IsEntry(e), Spelled(e), e.scheme \in {"ss", "hysteria2", "socks5", "anytls", "tuic"}
  PROVE  NetworkOf(e) = "tcp"
<1> DEFINE s == e.scheme
<1>1. "type" \in ParamKeys \ UriWords(s) /\ "type" \in ParamKeys \ ClashWords(s)
  BY WordSets, BlockKeySet DEF ParamKeys, UriKeys, ClashWords
<1>2. "network" \in ParamKeys \ UriWords(s) /\ "network" \in ParamKeys \ ClashWords(s)
  BY WordSets, BlockKeySet DEF ParamKeys, ClashKeys, ClashWords
<1>3. e.params["type"] = Absent /\ e.params["network"] = Absent
  BY <1>1, <1>2 DEF Spelled, InWords
<1>4. network_of(e) = Absent /\ network_key(s) = "type"
  BY <1>3 DEF network_of, network_key, Or
<1>5. UriParams(e)[network_key(s)] = Absent
  BY <1>4, UriReading
<1> QED  BY <1>5 DEF NetworkOf, Or

LEMMA NoObfuscation ==
  ASSUME NEW e, IsEntry(e), Spelled(e), e.scheme # "hysteria2"
  PROVE  UriParams(e)["obfs"] = Absent
<1>1. "obfs" \in ParamKeys \ UriWords(e.scheme) /\ "obfs" \in ParamKeys \ ClashWords(e.scheme)
  BY WordSets, BlockKeySet DEF Spelled, Protocols, ParamKeys, UriKeys, ClashWords
<1>2. e.params["obfs"] = Absent
  BY <1>1 DEF Spelled, InWords
<1> QED  BY <1>2, UriReading

\* A Clash item names what its entry named.
LEMMA ClashHop ==
  ASSUME NEW e, IsEntry(e), Spelled(e), e.dialect # "clash", ~Serialized("clash", e).lost, Carries("clash", e)
  PROVE  NodeOf(Serialized("clash", e)) = NodeOf(e)
<1> DEFINE r == Serialized("clash", e)
           f == r.params
           p == e.params
           u == UriParams(e)
           v == UriParams(r)
           s == e.scheme
<1>1. /\ IsEntry(r) /\ Spelled(r) /\ r.scheme = s /\ r.dialect = "clash" /\ f = entry_to_clash(e)
      /\ Split(r.scheme, r.credential) = Split(s, e.credential) /\ clash_is_supported(s)
  BY Handed
<1>2. network_of(e) \in Networks
  BY DEF Spelled, OneNetwork
<1>3. /\ p["servername"] = Absent /\ p["client-fingerprint"] = Absent /\ p["cipher"] = Absent
      /\ p["skip-cert-verify"] = Absent
      /\ reality_public_key(p) = p["pbk"] /\ reality_short_id(p) = p["sid"]
  BY PlainReading DEF ClashKeys
<1>4. \A k \in ParamKeys \ ClashWords(s) : f[k] = Absent
  <2> HIDE DEF r
  <2> QED  BY <1>1 DEF Spelled, InWords
<1>5. is_insecure(f) <=> is_insecure(p)
  <2>1. f["skip-cert-verify"] = If(is_insecure(p), "true")
    BY <1>1, <1>2, ClashVless, ClashVmess, ClashTrojan, ClashSs, ClashHysteria2, ClashSocks5, ClashAnytls
       DEF clash_is_supported, singbox_is_supported
  <2>2. {"insecure", "allowinsecure"} \subseteq ParamKeys \ ClashWords(s)
    BY <1>1, BlockKeySet DEF ParamKeys, UriKeys, ClashWords, clash_is_supported, singbox_is_supported
  <2>3. f["insecure"] = Absent /\ f["allowinsecure"] = Absent
    BY <1>4, <2>2
  <2>4. is_truthy_toggle("true")
    BY DEF is_truthy_toggle
  <2> HIDE DEF r
  <2>5. is_insecure(f) <=> is_truthy_toggle(f["skip-cert-verify"])
    BY <2>3, AbsentIsNothing DEF is_insecure, InsecureAliases
  <2> QED  BY <2>1, <2>4, <2>5, AbsentIsNothing DEF If
<1>6. s \notin {"socks5", "ss"} => (is_insecure(v) <=> is_insecure(u))
  <2>1. s # "tuic"
    BY <1>1 DEF clash_is_supported, singbox_is_supported
  <2> HIDE DEF r
  <2> QED  BY <1>1, <1>5, <2>1, UriReading
<1>7. CASE s = "vless"
  <2> DEFINE on == SecurityIs(p, "tls") \/ SecurityIs(p, "reality")
  <2>1. /\ p["tls"] = Absent /\ u["tls"] = Absent /\ u["security"] = p["security"] /\ (p["pbk"] # Absent <=> p["security"] = "reality")
        /\ u["sni"] = p["sni"] /\ u["fp"] = p["fp"] /\ u["alpn"] = p["alpn"] /\ u["flow"] = p["flow"]
        /\ u["pbk"] = p["pbk"] /\ u["sid"] = p["sid"]
    BY <1>7, PlainReading DEF TlsFamily
  <2>2. /\ f["tls"] = If(on, "true") /\ f["servername"] = If(on, p["sni"])
        /\ f["flow"] = p["flow"] /\ f["client-fingerprint"] = p["fp"] /\ f["alpn"] = p["alpn"]
        /\ f["reality-opts.public-key"] = p["pbk"] /\ f["reality-opts.short-id"] = p["sid"]
    <3>1. ~is_truthy_toggle(p["tls"])
      BY <2>1, AbsentIsNothing
    <3>2. Or(p["servername"], p["sni"]) = p["sni"]
      BY <1>3 DEF Or
    <3> HIDE DEF f
    <3> QED  BY <1>1, <1>2, <1>3, <1>7, <3>1, <3>2, ClashVless DEF If
  <2>3. f["pbk"] = Absent /\ f["sid"] = Absent /\ f["security"] = Absent /\ f["sni"] = Absent /\ f["fp"] = Absent
    <3>1. {"pbk", "sid", "security", "sni", "fp"} \subseteq ParamKeys \ ClashWords("vless")
      BY BlockKeySet DEF ParamKeys, UriKeys, ClashWords
    <3> HIDE DEF f
    <3> QED  BY <1>4, <1>7, <3>1
  <2> HIDE DEF r
  <2>4. /\ v["sni"] = If(on, p["sni"]) /\ v["fp"] = p["fp"] /\ v["alpn"] = p["alpn"] /\ v["flow"] = p["flow"]
        /\ v["pbk"] = p["pbk"] /\ v["sid"] = p["sid"] /\ v["tls"] = Absent
        /\ v["security"] = IF p["pbk"] # Absent THEN "reality" ELSE If(TlsStated(f), "tls")
    BY <1>1, <1>7, <2>2, <2>3, UriReading DEF Or, reality_public_key, reality_short_id, TlsFamily
  <2>5. TlsStated(f) <=> on
    <3>1. is_truthy_toggle("true")
      BY DEF is_truthy_toggle
    <3> QED  BY <2>2, <3>1, AbsentIsNothing DEF TlsStated, If
  <2>6. u["servername"] = Absent /\ v["servername"] = Absent
    BY <1>1, NoServerName
  <2>7. wants_tls(u) <=> (SecurityIs(p, "tls") \/ p["sni"] # Absent \/ is_insecure(u))
    BY <2>1, <2>6, AbsentIsNothing DEF wants_tls, TlsStated, is_falsy_toggle, SecurityIs, sni_of, Or, Absent
  <2>8. wants_tls(v) <=> (SecurityIs(v, "tls") \/ v["sni"] # Absent \/ is_insecure(v))
    BY <2>4, <2>6, AbsentIsNothing DEF wants_tls, TlsStated, is_falsy_toggle, SecurityIs, sni_of, Or, Absent
  <2> HIDE DEF u, v, f
  <2>9. TlsOf(e) = IF SecurityIs(p, "reality") THEN "reality" ELSE IF wants_tls(u) THEN "tls" ELSE "none"
    BY <1>7, <2>1 DEF TlsOf, SecurityIs, u
  <2>10. TlsOf(r) = IF SecurityIs(v, "reality") THEN "reality" ELSE IF wants_tls(v) THEN "tls" ELSE "none"
    BY <1>1, <1>7 DEF TlsOf, v
  <2>11. SecurityIs(p, "tls") \/ TlsOf(e) # "tls"
    BY <1>7, <2>1 DEF Carries, SecurityIs, u
  <2>12. TlsOf(r) = TlsOf(e)
    BY <1>6, <1>7, <2>1, <2>4, <2>5, <2>7, <2>8, <2>9, <2>10, <2>11, AbsentIsNothing DEF SecurityIs, If
  <2>13. TlsOf(e) # "none" => on
    BY <2>9, <2>11
  <2>14. TlsOf(e) # "none" => v["sni"] = p["sni"]
    BY <2>4, <2>13 DEF If
  <2>15. u["obfs"] = Absent /\ v["obfs"] = Absent
    BY <1>1, <1>7, NoObfuscation DEF u, v
  <2> HIDE DEF on
  <2> QED  BY <1>1, <1>6, <1>7, <2>1, <2>4, <2>12, <2>14, <2>15, ClashKeepsNetwork, NodesEqual DEF u, v, r, Or, If
<1>8. CASE s = "vmess"
  <2>1. /\ (TlsStated(u) <=> TlsStated(p)) /\ u["sni"] = p["sni"] /\ u["fp"] = p["fp"] /\ u["alpn"] = p["alpn"] /\ u["scy"] = p["scy"]
    BY <1>8, PlainReading DEF TlsFamily
  <2>2. ~SecurityIs(p, "tls")
    <3>1. "security" \in ParamKeys \ UriWords(s)
      BY <1>8, WordSets DEF ParamKeys, UriKeys
    <3> QED  BY <3>1, AbsentIsNothing DEF Spelled, InWords, SecurityIs
  <2>3. /\ f["tls"] = If(TlsStated(p), "true") /\ f["servername"] = If(TlsStated(p), p["sni"])
        /\ f["cipher"] = Or(p["scy"], "auto") /\ f["client-fingerprint"] = p["fp"] /\ f["alpn"] = p["alpn"]
    <3>1. Or(p["servername"], p["sni"]) = p["sni"] /\ Or(p["client-fingerprint"], p["fp"]) = p["fp"]
          /\ Or(p["cipher"], "auto") = "auto"
      BY <1>3 DEF Or
    <3> HIDE DEF f
    <3> QED  BY <1>1, <1>2, <1>8, <2>2, <3>1, ClashVmess DEF If
  <2>4. f["scy"] = Absent /\ f["sni"] = Absent /\ f["fp"] = Absent
    <3>1. {"scy", "sni", "fp"} \subseteq ParamKeys \ ClashWords("vmess")
      BY BlockKeySet DEF ParamKeys, UriKeys, ClashWords
    <3> HIDE DEF f
    <3> QED  BY <1>4, <1>8, <3>1
  <2> HIDE DEF r
  <2>5. /\ v["sni"] = If(TlsStated(p), p["sni"]) /\ v["fp"] = p["fp"] /\ v["alpn"] = p["alpn"] /\ v["scy"] = Or(p["scy"], "auto")
        /\ (TlsStated(v) <=> TlsStated(f))
    BY <1>1, <1>8, <2>3, <2>4, UriReading DEF Or, TlsFamily
  <2>6. TlsStated(f) <=> TlsStated(p)
    <3>1. is_truthy_toggle("true")
      BY DEF is_truthy_toggle
    <3> QED  BY <2>3, <3>1, AbsentIsNothing DEF TlsStated, If
  <2> HIDE DEF u, v, f
  <2>7. TlsOf(e) = (IF TlsStated(p) THEN "tls" ELSE "none") /\ TlsOf(r) = TlsOf(e)
    BY <1>1, <1>8, <2>1, <2>5, <2>6 DEF TlsOf, u, v
  <2>8. TlsOf(e) # "none" => v["sni"] = p["sni"]
    BY <2>5, <2>7 DEF If
  <2>9. u["obfs"] = Absent /\ v["obfs"] = Absent
    BY <1>1, <1>8, NoObfuscation DEF u, v
  <2>10. Or(v["scy"], "auto") = Or(u["scy"], "auto")
    BY <2>1, <2>5 DEF Or
  <2>11. /\ NetworkOf(r) = NetworkOf(e)
         /\ NetworkOf(e) \in {"ws", "http"} => v["path"] = u["path"] /\ v["host"] = u["host"]
         /\ NetworkOf(e) = "grpc" => Or(v["servicename"], If(s = "vmess", v["path"])) = Or(u["servicename"], If(s = "vmess", u["path"]))
    BY <1>8, ClashKeepsNetwork DEF r, u, v, Or, If
  <2>12. TlsOf(e) # "reality"
    BY <2>7
  <2>13. /\ e.scheme = r.scheme /\ Split(e.scheme, e.credential) = Split(r.scheme, r.credential)
         /\ TlsOf(e) = TlsOf(r) /\ NetworkOf(e) = NetworkOf(r)
    BY <1>1, <1>6, <1>8, <2>1, <2>5, <2>7, <2>8, <2>9, <2>10, <2>11, <2>12
  <2>14. /\ TlsOf(e) # "none" => /\ u["sni"] = v["sni"] /\ (is_insecure(u) <=> is_insecure(v))
                                /\ u["fp"] = v["fp"] /\ u["alpn"] = v["alpn"]
         /\ TlsOf(e) = "reality" => u["pbk"] = v["pbk"] /\ u["sid"] = v["sid"]
         /\ NetworkOf(e) \in {"ws", "http"} => u["path"] = v["path"] /\ u["host"] = v["host"]
         /\ NetworkOf(e) = "grpc" => Or(u["servicename"], If(s = "vmess", u["path"])) = Or(v["servicename"], If(s = "vmess", v["path"]))
         /\ s = "vmess" => Or(u["scy"], "auto") = Or(v["scy"], "auto")
         /\ u["obfs"] = v["obfs"] /\ u["obfs"] = Absent /\ s # "vless"
    BY <1>1, <1>6, <1>8, <2>1, <2>5, <2>7, <2>8, <2>9, <2>10, <2>11, <2>12
  <2> QED  BY <2>13, <2>14, NodesEqual DEF u, v, r, Or, If
<1>9. CASE s = "trojan"
  <2>1. /\ u["security"] = p["security"] /\ (p["pbk"] # Absent <=> p["security"] = "reality")
        /\ u["sni"] = p["sni"] /\ u["fp"] = p["fp"] /\ u["alpn"] = p["alpn"] /\ u["pbk"] = p["pbk"] /\ u["sid"] = p["sid"]
    BY <1>9, PlainReading DEF TlsFamily
  <2>2. /\ f["sni"] = p["sni"] /\ f["client-fingerprint"] = p["fp"] /\ f["alpn"] = p["alpn"]
        /\ f["reality-opts.public-key"] = p["pbk"] /\ f["reality-opts.short-id"] = p["sid"]
    <3> HIDE DEF f
    <3> QED  BY <1>1, <1>2, <1>3, <1>9, ClashTrojan
  <2>3. f["pbk"] = Absent /\ f["sid"] = Absent /\ f["security"] = Absent /\ f["servername"] = Absent /\ f["fp"] = Absent
    <3>1. {"pbk", "sid", "security", "servername", "fp"} \subseteq ParamKeys \ ClashWords("trojan")
      BY BlockKeySet DEF ParamKeys, UriKeys, ClashKeys, ClashWords
    <3> HIDE DEF f
    <3> QED  BY <1>4, <1>9, <3>1
  <2> HIDE DEF r
  <2>4. /\ v["sni"] = p["sni"] /\ v["fp"] = p["fp"] /\ v["alpn"] = p["alpn"]
        /\ v["pbk"] = p["pbk"] /\ v["sid"] = p["sid"]
    BY <1>1, <1>9, <2>2, <2>3, UriReading DEF Or, reality_public_key, reality_short_id
  <2>5. TlsOf(e) = "reality" <=> TlsOf(r) = "reality"
    <3>1. reality_public_key(f) = p["pbk"]
      BY <2>2, <2>3 DEF reality_public_key, Or
    <3> QED  BY <1>1, <1>3, <1>9, <3>1, RealityReading
  <2>6. TlsOf(e) \in {"reality", "tls"} /\ TlsOf(r) \in {"reality", "tls"}
    BY <1>1, <1>9 DEF TlsOf
  <2>7. TlsOf(r) = TlsOf(e)
    BY <2>5, <2>6
  <2>8. u["obfs"] = Absent /\ v["obfs"] = Absent
    BY <1>1, <1>9, NoObfuscation
  <2>9. /\ NetworkOf(r) = NetworkOf(e)
        /\ NetworkOf(e) \in {"ws", "http"} => v["path"] = u["path"] /\ v["host"] = u["host"]
        /\ NetworkOf(e) = "grpc" => Or(v["servicename"], If(s = "vmess", v["path"])) = Or(u["servicename"], If(s = "vmess", u["path"]))
    BY <1>9, ClashKeepsNetwork DEF r, Or, If
  <2> HIDE DEF u, v, f
  <2>10. /\ e.scheme = r.scheme /\ Split(e.scheme, e.credential) = Split(r.scheme, r.credential)
         /\ TlsOf(e) = TlsOf(r) /\ NetworkOf(e) = NetworkOf(r)
    BY <1>1, <1>6, <1>9, <2>1, <2>4, <2>7, <2>8, <2>9
  <2>11. /\ TlsOf(e) # "none" => /\ u["sni"] = v["sni"] /\ (is_insecure(u) <=> is_insecure(v))
                                /\ u["fp"] = v["fp"] /\ u["alpn"] = v["alpn"]
         /\ TlsOf(e) = "reality" => u["pbk"] = v["pbk"] /\ u["sid"] = v["sid"]
         /\ NetworkOf(e) \in {"ws", "http"} => u["path"] = v["path"] /\ u["host"] = v["host"]
         /\ NetworkOf(e) = "grpc" => Or(u["servicename"], If(s = "vmess", u["path"])) = Or(v["servicename"], If(s = "vmess", v["path"]))
         /\ s = "vmess" => Or(u["scy"], "auto") = Or(v["scy"], "auto")
         /\ u["obfs"] = v["obfs"] /\ u["obfs"] = Absent /\ s # "vless"
    BY <1>1, <1>6, <1>9, <2>1, <2>4, <2>7, <2>8, <2>9
  <2> QED  BY <2>10, <2>11, NodesEqual DEF u, v, r, Or, If
\* The schemes without a transport block.
<1>10. ASSUME s \in {"ss", "hysteria2", "socks5", "anytls"}, TlsOf(r) = TlsOf(e),
              TlsOf(e) # "none" => v["sni"] = u["sni"] /\ v["fp"] = u["fp"] /\ v["alpn"] = u["alpn"] /\ s \notin {"ss", "socks5"},
              TlsOf(e) # "reality", v["obfs"] = u["obfs"], v["obfs-password"] = u["obfs-password"] \/ u["obfs"] = Absent
       PROVE  NodeOf(r) = NodeOf(e)
  <2>1. NetworkOf(r) = "tcp" /\ NetworkOf(e) = "tcp"
    <3> HIDE DEF r
    <3> QED  BY <1>1, <1>10, NoTransport
  <2> HIDE DEF r, u, v, f
  <2> QED  BY <1>1, <1>6, <1>10, <2>1, NodesEqual DEF u, v
<1>11. CASE s = "ss"
  <2>1. TlsOf(r) = "none" /\ TlsOf(e) = "none"
    <3> HIDE DEF r
    <3> QED  BY <1>1, <1>11 DEF TlsOf
  <2>2. u["obfs"] = Absent /\ v["obfs"] = Absent
    BY <1>1, <1>11, NoObfuscation
  <2> HIDE DEF r, u, v
  <2> QED  BY <1>10, <1>11, <2>1, <2>2 DEF r, u, v
<1>12. CASE s = "socks5"
  <2>1. TlsOf(e) = "none" /\ ~TlsStated(u) /\ ~TlsStated(p)
    BY <1>12, PlainReading DEF Carries, TlsOf, TlsFamily
  <2>2. f["tls"] = Absent
    <3>1. ~is_truthy_toggle(p["tls"])
      BY <2>1 DEF TlsStated
    <3> HIDE DEF f
    <3> QED  BY <1>1, <1>12, <3>1, ClashSocks5 DEF If
  <2>3. TlsOf(r) = "none"
    <3> HIDE DEF r
    <3>1. ~TlsStated(f)
      BY <2>2, AbsentIsNothing DEF TlsStated
    <3>2. ~TlsStated(v)
      BY <1>1, <1>12, <3>1, UriReading DEF TlsFamily
    <3> QED  BY <1>1, <1>12, <3>2 DEF TlsOf
  <2>4. u["obfs"] = Absent /\ v["obfs"] = Absent
    BY <1>1, <1>12, NoObfuscation
  <2> HIDE DEF r, u, v
  <2> QED  BY <1>10, <1>12, <2>1, <2>3, <2>4 DEF r, u, v
<1>13. CASE s \in {"hysteria2", "anytls"}
  <2>1. TlsOf(r) = "tls" /\ TlsOf(e) = "tls"
    <3> HIDE DEF r
    <3> QED  BY <1>1, <1>13 DEF TlsOf
  <2>2. u["sni"] = p["sni"] /\ u["fp"] = p["fp"] /\ u["alpn"] = p["alpn"] /\ u["obfs"] = p["obfs"]
        /\ u["obfs-password"] = p["obfs-password"]
    BY PlainReading
  <2>3. f["sni"] = p["sni"] /\ (s = "hysteria2" => f["alpn"] = p["alpn"] /\ f["obfs"] = p["obfs"] /\ f["obfs-password"] = p["obfs-password"])
    <3> HIDE DEF f
    <3> QED  BY <1>1, <1>13, ClashHysteria2, ClashAnytls
  <2>4. f["servername"] = Absent /\ f["fp"] = Absent /\ f["client-fingerprint"] = Absent
        /\ (s = "anytls" => f["alpn"] = Absent)
    <3>1. {"servername", "fp", "client-fingerprint"} \subseteq ParamKeys \ ClashWords(s)
          /\ (s = "anytls" => "alpn" \in ParamKeys \ ClashWords(s))
      BY <1>13 DEF ParamKeys, UriKeys, ClashKeys, ClashWords
    <3> HIDE DEF f
    <3> QED  BY <1>4, <3>1
  <2>5. p["fp"] = Absent /\ (s = "anytls" => p["alpn"] = Absent)
    <3>1. "fp" \in ParamKeys \ UriWords(s) /\ (s = "anytls" => "alpn" \in ParamKeys \ UriWords(s))
      BY <1>13, WordSets DEF ParamKeys, UriKeys
    <3> QED  BY <3>1 DEF Spelled, InWords
  <2>6. /\ v["sni"] = p["sni"] /\ v["fp"] = p["fp"] /\ v["alpn"] = p["alpn"]
        /\ (s = "hysteria2" => v["obfs"] = p["obfs"] /\ v["obfs-password"] = p["obfs-password"])
    <3> HIDE DEF r
    <3> QED  BY <1>1, <1>13, <2>3, <2>4, <2>5, UriReading DEF Or
  <2>7. s = "anytls" => u["obfs"] = Absent /\ v["obfs"] = Absent
    BY <1>1, NoObfuscation
  <2> HIDE DEF r, u, v, f
  <2> QED  BY <1>10, <1>13, <2>1, <2>2, <2>6, <2>7 DEF r, u, v
<1> QED  BY <1>1, <1>7, <1>8, <1>9, <1>11, <1>12, <1>13 DEF clash_is_supported, singbox_is_supported

\* The transport of an outbound is the transport of its entry.
LEMMA SingboxKeepsNetwork ==
  ASSUME NEW e, IsEntry(e), Spelled(e), e.dialect # "clash", e.scheme \in {"vless", "vmess", "trojan"},
         ~Serialized("singbox", e).lost
  PROVE  LET r == Serialized("singbox", e)
             u == UriParams(e)
             v == UriParams(r)
         IN  /\ NetworkOf(r) = NetworkOf(e)
             /\ NetworkOf(e) \in {"ws", "http"} => v["path"] = u["path"] /\ v["host"] = u["host"]
             /\ NetworkOf(e) = "grpc" => v["path"] = Absent /\ v["servicename"] = Or(u["servicename"], If(e.scheme = "vmess", u["path"]))
<1> DEFINE r == Serialized("singbox", e)
           f == r.params
           p == e.params
           s == e.scheme
           t == native_transport_params(transport_object(e), network_key(s))
           net == network_of(e)
           http == net \in {"h2", "http"}
<1>1. /\ IsEntry(r) /\ Spelled(r) /\ r.scheme = s /\ r.dialect = "singbox"
      /\ f = parse_outbound(s, entry_to_outbound(e))
  BY Handed
<1>2. net \in Networks
  BY DEF Spelled, OneNetwork
<1>3. \A k \in {network_key(s), "path", "host", "servicename"} : f[k] = Read(t, k)
  BY <1>1, <1>2, SingboxVless, SingboxVmess, SingboxTrojan DEF network_key
<1>4. /\ UriParams(e)[network_key(s)] = net /\ UriParams(e)["path"] = p["path"] /\ UriParams(e)["host"] = p["host"]
      /\ UriParams(e)["servicename"] = p["servicename"]
  BY PlainReading
<1>5. /\ UriParams(r)[network_key(s)] = Read(t, network_key(s)) /\ UriParams(r)["path"] = Read(t, "path")
      /\ UriParams(r)["host"] = Read(t, "host") /\ UriParams(r)["servicename"] = Read(t, "servicename")
  <2> HIDE DEF r
  <2>1. /\ UriParams(r)[network_key(s)] = f[network_key(s)] /\ UriParams(r)["path"] = f["path"]
        /\ UriParams(r)["host"] = f["host"] /\ UriParams(r)["servicename"] = f["servicename"]
    BY <1>1, PlainReading
  <2> QED  BY <1>3, <2>1
<1>6. /\ Read(t, network_key(s)) = IF net \in {Absent, "tcp"} THEN Absent ELSE IF http THEN "http" ELSE net
      /\ Read(t, "path") = If(net = "ws" \/ http, p["path"]) /\ Read(t, "host") = If(net = "ws" \/ http, p["host"])
      /\ Read(t, "servicename") = If(net = "grpc", Or(p["servicename"], If(s = "vmess", p["path"])))
  BY <1>2, NativeTransport DEF network_key
<1> HIDE DEF r, t
<1>7. NetworkOf(e) = IF net \in {Absent, "tcp"} THEN "tcp" ELSE IF net = "h2" THEN "http" ELSE net
  BY <1>4 DEF NetworkOf, Or
<1>8. NetworkOf(r) = NetworkOf(e)
  BY <1>1, <1>2, <1>5, <1>6, <1>7, AbsentIsNothing DEF NetworkOf, Or, Networks
<1>9. NetworkOf(e) \in {"ws", "http"} => net = "ws" \/ http
  BY <1>2, <1>7 DEF Networks
<1>10. NetworkOf(e) = "grpc" => net = "grpc"
  BY <1>2, <1>7 DEF Networks
<1>11. (net = "ws" \/ http) => UriParams(r)["path"] = p["path"] /\ UriParams(r)["host"] = p["host"]
  BY <1>5, <1>6 DEF If
<1>12. net = "grpc" => UriParams(r)["path"] = Absent /\ UriParams(r)["servicename"] = Or(p["servicename"], If(s = "vmess", p["path"]))
  BY <1>5, <1>6 DEF If
<1> QED  BY <1>4, <1>8, <1>9, <1>10, <1>11, <1>12 DEF r

\* An outbound connects to what its entry named.
LEMMA SingboxHop ==
  ASSUME NEW e, IsEntry(e), Spelled(e), e.dialect # "clash", ~Serialized("singbox", e).lost, Carries("singbox", e)
  PROVE  NodeOf(Serialized("singbox", e)) = NodeOf(e)
<1> DEFINE r == Serialized("singbox", e)
           f == r.params
           p == e.params
           u == UriParams(e)
           v == UriParams(r)
           s == e.scheme
<1>1. /\ IsEntry(r) /\ Spelled(r) /\ r.scheme = s /\ r.dialect = "singbox"
      /\ f = parse_outbound(s, entry_to_outbound(e))
      /\ Split(r.scheme, r.credential) = Split(s, e.credential)
      /\ s \in {"vless", "vmess", "trojan", "ss", "hysteria2", "socks5"}
  BY Handed DEF singbox_is_supported
<1>2. network_of(e) \in Networks
  BY DEF Spelled, OneNetwork
<1>3. p["servername"] = Absent /\ reality_public_key(p) = p["pbk"] /\ reality_short_id(p) = p["sid"]
      /\ Or(p["sni"], p["servername"]) = p["sni"] /\ p["cipher"] = Absent
  BY PlainReading DEF ClashKeys, Or
\* Both sides are read as they stand.
<1>4. /\ u["sni"] = p["sni"] /\ u["fp"] = p["fp"] /\ u["alpn"] = p["alpn"] /\ u["flow"] = p["flow"]
      /\ u["pbk"] = p["pbk"] /\ u["sid"] = p["sid"] /\ u["obfs"] = p["obfs"] /\ u["obfs-password"] = p["obfs-password"]
      /\ (s = "vmess" => u["scy"] = p["scy"]) /\ (is_insecure(u) <=> is_insecure(p))
      /\ s \in TlsFamily => p["tls"] = Absent /\ u["tls"] = Absent /\ u["security"] = p["security"]
                            /\ (p["pbk"] # Absent <=> p["security"] = "reality")
      /\ s \notin TlsFamily => (TlsStated(u) <=> TlsStated(p))
  BY PlainReading
<1>5. /\ v["sni"] = f["sni"] /\ v["fp"] = f["fp"] /\ v["alpn"] = f["alpn"] /\ v["flow"] = f["flow"]
      /\ v["pbk"] = f["pbk"] /\ v["sid"] = f["sid"] /\ v["obfs"] = f["obfs"] /\ v["obfs-password"] = f["obfs-password"]
      /\ (s = "vmess" => v["scy"] = f["scy"]) /\ (is_insecure(v) <=> is_insecure(f))
      /\ s \in TlsFamily => v["tls"] = Absent /\ v["security"] = f["security"]
      /\ s \notin TlsFamily => (TlsStated(v) <=> TlsStated(f))
  <2> HIDE DEF r
  <2> QED  BY <1>1, PlainReading
<1>6. f["allowinsecure"] = Absent /\ f["skip-cert-verify"] = Absent
  <2>1. {"allowinsecure", "skip-cert-verify"} \subseteq ParamKeys
    BY DEF ParamKeys, UriKeys, ClashKeys
  <2> HIDE DEF f
  <2> QED  BY <1>1, <1>2, <2>1, SingboxVless, SingboxVmess, SingboxTrojan, SingboxSs, SingboxHysteria2, SingboxSocks5
<1>7. is_insecure(f) <=> is_truthy_toggle(f["insecure"])
  BY <1>6, AbsentIsNothing DEF is_insecure, InsecureAliases
<1>8. is_truthy_toggle("true")
  BY DEF is_truthy_toggle
<1>9. CASE s = "vless"
  <2> DEFINE reality == SecurityIs(p, "reality")
             on == reality \/ wants_tls(p)
  <2>1. /\ f["security"] = If(on, IF reality THEN "reality" ELSE "tls")
        /\ f["pbk"] = If(on /\ reality, p["pbk"]) /\ f["sid"] = If(on /\ reality, p["sid"])
        /\ f["sni"] = If(on, p["sni"]) /\ f["alpn"] = If(on, p["alpn"]) /\ f["fp"] = If(on, p["fp"])
        /\ f["insecure"] = If(on /\ is_insecure(p), "true") /\ f["flow"] = p["flow"]
    <3>1. p["pbk"] # Absent <=> SecurityIs(p, "reality")
      BY <1>4, <1>9 DEF TlsFamily, SecurityIs
    <3> HIDE DEF f
    <3> QED  BY <1>1, <1>2, <1>3, <1>9, <3>1, SingboxVless DEF If
  <2> HIDE DEF r
  <2>2. u["servername"] = Absent /\ v["servername"] = Absent
    BY <1>1, NoServerName
  <2>3. wants_tls(u) <=> wants_tls(p)
    BY <1>3, <1>4, <1>9, <2>2 DEF wants_tls, TlsStated, SecurityIs, sni_of, Or, TlsFamily
  <2>4. wants_tls(v) <=> (SecurityIs(v, "tls") \/ v["sni"] # Absent \/ is_insecure(v))
    BY <1>5, <1>9, <2>2, AbsentIsNothing DEF wants_tls, TlsStated, is_falsy_toggle, SecurityIs, sni_of, Or, Absent, TlsFamily
  <2> HIDE DEF u, v, f
  <2>5. TlsOf(e) = IF reality THEN "reality" ELSE IF wants_tls(u) THEN "tls" ELSE "none"
    BY <1>4, <1>9 DEF TlsOf, SecurityIs, u, TlsFamily
  <2>6. TlsOf(r) = IF SecurityIs(v, "reality") THEN "reality" ELSE IF wants_tls(v) THEN "tls" ELSE "none"
    BY <1>1, <1>9 DEF TlsOf, v
  <2>7. on <=> TlsOf(e) # "none"
    BY <2>3, <2>5
  <2>8. SecurityIs(v, "reality") <=> reality
    BY <1>5, <1>9, <2>1, AbsentIsNothing DEF If, SecurityIs, TlsFamily
  <2>9. ~reality => (wants_tls(v) <=> on)
    <3> SUFFICES ASSUME ~reality PROVE wants_tls(v) <=> on
      OBVIOUS
    <3>1. CASE on
      <4>1. v["security"] = "tls"
        BY <1>5, <1>9, <2>1, <3>1 DEF If, TlsFamily
      <4> QED  BY <2>4, <3>1, <4>1 DEF SecurityIs
    <3>2. CASE ~on
      BY <1>5, <1>7, <1>9, <2>1, <2>4, <3>2, AbsentIsNothing DEF If, SecurityIs, TlsFamily
    <3> QED  BY <3>1, <3>2
  <2>10. TlsOf(r) = TlsOf(e)
    BY <2>5, <2>6, <2>7, <2>8, <2>9
  <2>11. on => (is_insecure(v) <=> is_insecure(u))
    BY <1>4, <1>5, <1>7, <1>8, <2>1, AbsentIsNothing DEF If
  <2>12. u["obfs"] = Absent /\ v["obfs"] = Absent
    BY <1>1, <1>9, NoObfuscation DEF u, v
  <2>13. TlsOf(e) = "reality" => reality
    BY <2>5
  <2>14. /\ NetworkOf(r) = NetworkOf(e)
         /\ NetworkOf(e) \in {"ws", "http"} => v["path"] = u["path"] /\ v["host"] = u["host"]
         /\ NetworkOf(e) = "grpc" => v["servicename"] = u["servicename"]
    BY <1>9, SingboxKeepsNetwork DEF r, u, v, Or, If
  <2>15. /\ TlsOf(e) # "none" => /\ u["sni"] = v["sni"] /\ (is_insecure(u) <=> is_insecure(v))
                                /\ u["fp"] = v["fp"] /\ u["alpn"] = v["alpn"]
         /\ TlsOf(e) = "reality" => u["pbk"] = v["pbk"] /\ u["sid"] = v["sid"]
         /\ u["flow"] = v["flow"]
    BY <1>4, <1>5, <2>1, <2>7, <2>11, <2>13 DEF If
  <2> HIDE DEF on, reality
  <2> QED  BY <1>1, <1>9, <2>10, <2>12, <2>14, <2>15, NodesEqual DEF u, v, r, Or, If
<1>10. CASE s = "vmess"
  <2> DEFINE on == TlsStated(p)
  <2>1. ~SecurityIs(p, "tls")
    <3>1. "security" \in ParamKeys \ UriWords(s)
      BY <1>10, WordSets DEF ParamKeys, UriKeys
    <3> QED  BY <3>1, AbsentIsNothing DEF Spelled, InWords, SecurityIs
  <2>2. /\ f["tls"] = If(on, "tls") /\ f["sni"] = If(on, p["sni"]) /\ f["alpn"] = If(on, p["alpn"]) /\ f["fp"] = If(on, p["fp"])
        /\ f["insecure"] = If(on /\ is_insecure(p), "true") /\ f["scy"] = Or(p["scy"], "auto")
    <3>1. Or(p["cipher"], "auto") = "auto"
      BY <1>3 DEF Or
    <3> HIDE DEF f
    <3> QED  BY <1>1, <1>2, <1>3, <1>10, <2>1, <3>1, SingboxVmess DEF If
  <2> HIDE DEF r
  <2>3. TlsStated(f) <=> on
    BY <2>2, AbsentIsNothing DEF TlsStated, If
  <2> HIDE DEF u, v, f
  <2>4. TlsOf(e) = (IF on THEN "tls" ELSE "none") /\ TlsOf(r) = TlsOf(e)
    BY <1>1, <1>4, <1>5, <1>10, <2>3 DEF TlsOf, u, v, TlsFamily
  <2>5. u["obfs"] = Absent /\ v["obfs"] = Absent
    BY <1>1, <1>10, NoObfuscation DEF u, v
  <2>6. /\ NetworkOf(r) = NetworkOf(e)
        /\ NetworkOf(e) \in {"ws", "http"} => v["path"] = u["path"] /\ v["host"] = u["host"]
        /\ NetworkOf(e) = "grpc" => Or(v["servicename"], If(s = "vmess", v["path"])) = Or(u["servicename"], If(s = "vmess", u["path"]))
    BY <1>10, SingboxKeepsNetwork DEF r, u, v, Or, If
  <2>7. /\ TlsOf(e) # "none" => /\ u["sni"] = v["sni"] /\ (is_insecure(u) <=> is_insecure(v))
                               /\ u["fp"] = v["fp"] /\ u["alpn"] = v["alpn"]
        /\ TlsOf(e) # "reality"
        /\ Or(u["scy"], "auto") = Or(v["scy"], "auto")
    BY <1>4, <1>5, <1>7, <1>8, <1>10, <2>2, <2>4, AbsentIsNothing DEF If, Or
  <2> HIDE DEF on
  <2> QED  BY <1>1, <1>10, <2>4, <2>5, <2>6, <2>7, NodesEqual DEF u, v, r, Or, If
<1>11. CASE s = "trojan"
  <2> DEFINE reality == SecurityIs(p, "reality")
  <2>1. /\ f["security"] = IF reality THEN "reality" ELSE "tls"
        /\ f["pbk"] = If(reality, p["pbk"]) /\ f["sid"] = If(reality, p["sid"])
        /\ f["sni"] = p["sni"] /\ f["alpn"] = p["alpn"] /\ f["fp"] = p["fp"]
        /\ f["insecure"] = If(is_insecure(p), "true")
    <3>1. p["pbk"] # Absent <=> SecurityIs(p, "reality")
      BY <1>4, <1>11 DEF TlsFamily, SecurityIs
    <3> HIDE DEF f
    <3> QED  BY <1>1, <1>2, <1>3, <1>11, <3>1, SingboxTrojan DEF If
  <2> HIDE DEF r, u, v, f
  <2>2. TlsOf(e) = (IF reality THEN "reality" ELSE "tls") /\ TlsOf(r) = TlsOf(e)
    BY <1>1, <1>4, <1>5, <1>11, <2>1 DEF TlsOf, u, v, TlsFamily, SecurityIs
  <2>3. u["obfs"] = Absent /\ v["obfs"] = Absent
    BY <1>1, <1>11, NoObfuscation DEF u, v
  <2>4. /\ NetworkOf(r) = NetworkOf(e)
        /\ NetworkOf(e) \in {"ws", "http"} => v["path"] = u["path"] /\ v["host"] = u["host"]
        /\ NetworkOf(e) = "grpc" => v["servicename"] = u["servicename"]
    BY <1>11, SingboxKeepsNetwork DEF r, u, v, Or, If
  <2>5. /\ u["sni"] = v["sni"] /\ (is_insecure(u) <=> is_insecure(v)) /\ u["fp"] = v["fp"] /\ u["alpn"] = v["alpn"]
        /\ TlsOf(e) = "reality" => u["pbk"] = v["pbk"] /\ u["sid"] = v["sid"]
    BY <1>4, <1>5, <1>7, <1>8, <2>1, <2>2, AbsentIsNothing DEF If
  <2> HIDE DEF reality
  <2> QED  BY <1>1, <1>11, <2>2, <2>3, <2>4, <2>5, NodesEqual DEF u, v, r, Or, If
\* The schemes without a transport block.
<1>12. ASSUME s \in {"ss", "hysteria2", "socks5"}, TlsOf(r) = TlsOf(e),
              TlsOf(e) # "none" => v["sni"] = u["sni"] /\ v["fp"] = u["fp"] /\ v["alpn"] = u["alpn"]
                                   /\ (is_insecure(v) <=> is_insecure(u)),
              TlsOf(e) # "reality", v["obfs"] = u["obfs"], v["obfs-password"] = u["obfs-password"] \/ u["obfs"] = Absent
       PROVE  NodeOf(r) = NodeOf(e)
  <2>1. NetworkOf(r) = "tcp" /\ NetworkOf(e) = "tcp"
    <3> HIDE DEF r
    <3> QED  BY <1>1, <1>12, NoTransport
  <2> HIDE DEF r, u, v, f
  <2> QED  BY <1>1, <1>12, <2>1, NodesEqual DEF u, v
<1>13. CASE s = "ss"
  <2>1. TlsOf(r) = "none" /\ TlsOf(e) = "none"
    <3> HIDE DEF r
    <3> QED  BY <1>1, <1>13 DEF TlsOf
  <2>2. u["obfs"] = Absent /\ v["obfs"] = Absent
    BY <1>1, <1>13, NoObfuscation
  <2> HIDE DEF r, u, v
  <2> QED  BY <1>12, <1>13, <2>1, <2>2 DEF r, u, v
<1>14. CASE s = "socks5"
  <2> DEFINE on == is_truthy_toggle(p["tls"])
  <2>1. TlsStated(p) <=> on
    BY <1>14 DEF Spelled, OneSecurity, TlsStated
  <2>2. /\ f["tls"] = If(on, "true") /\ f["sni"] = If(on, p["sni"])
        /\ f["insecure"] = If(on /\ is_insecure(p), "true") /\ f["fp"] = Absent /\ f["alpn"] = Absent
    <3>1. {"fp", "alpn"} \subseteq ParamKeys \ {"tls", "sni", "insecure"}
      BY DEF ParamKeys, UriKeys
    <3> HIDE DEF f
    <3> QED  BY <1>1, <1>3, <1>14, <3>1, SingboxSocks5 DEF If
  <2>3. p["fp"] = Absent /\ p["alpn"] = Absent
    <3>1. {"fp", "alpn"} \subseteq ParamKeys \ UriWords(s)
      BY <1>14, WordSets DEF ParamKeys, UriKeys
    <3> QED  BY <3>1 DEF Spelled, InWords
  <2> HIDE DEF r
  <2>4. TlsStated(f) <=> on
    BY <1>8, <2>2, AbsentIsNothing DEF TlsStated, If
  <2>5. TlsOf(e) = (IF on THEN "tls" ELSE "none") /\ TlsOf(r) = TlsOf(e)
    BY <1>1, <1>4, <1>5, <1>14, <2>1, <2>4 DEF TlsOf, TlsFamily
  <2>6. u["obfs"] = Absent /\ v["obfs"] = Absent
    BY <1>1, <1>14, NoObfuscation
  <2>7. on => v["sni"] = u["sni"] /\ v["fp"] = u["fp"] /\ v["alpn"] = u["alpn"] /\ (is_insecure(v) <=> is_insecure(u))
    BY <1>4, <1>5, <1>7, <1>8, <2>2, <2>3, AbsentIsNothing DEF If
  <2> HIDE DEF u, v, on
  <2> QED  BY <1>12, <1>14, <2>5, <2>6, <2>7 DEF r, u, v
<1>15. CASE s = "hysteria2"
  <2>1. TlsOf(r) = "tls" /\ TlsOf(e) = "tls"
    <3> HIDE DEF r
    <3> QED  BY <1>1, <1>15 DEF TlsOf
  <2>2. /\ f["sni"] = p["sni"] /\ f["alpn"] = p["alpn"] /\ f["fp"] = p["fp"] /\ f["insecure"] = If(is_insecure(p), "true")
        /\ f["obfs"] = p["obfs"] /\ f["obfs-password"] = If(p["obfs"] # Absent, p["obfs-password"])
    <3> HIDE DEF f
    <3> QED  BY <1>1, <1>3, <1>15, SingboxHysteria2
  <2>3. is_insecure(v) <=> is_insecure(u)
    BY <1>4, <1>5, <1>7, <1>8, <2>2, AbsentIsNothing DEF If
  <2>4. v["obfs"] = u["obfs"] /\ (v["obfs-password"] = u["obfs-password"] \/ u["obfs"] = Absent)
    BY <1>4, <1>5, <2>2 DEF If
  <2> HIDE DEF r, u, v, f
  <2> QED  BY <1>4, <1>5, <1>12, <1>15, <2>1, <2>2, <2>3, <2>4 DEF r, u, v
<1> QED  BY <1>1, <1>9, <1>10, <1>11, <1>13, <1>14, <1>15

\* A hop of any format.
LEMMA NodeHop ==
  ASSUME NEW e, IsEntry(e), Spelled(e), NEW format \in {"url_list", "clash", "singbox"}, ~Serialized(format, e).lost,
         Carries(format, e), e.dialect # "clash" \/ format = "url_list"
  PROVE  NodeOf(Serialized(format, e)) = NodeOf(e)
<1>1. CASE format = "url_list"
  <2> DEFINE r == Serialized(format, e)
  <2>1. r.scheme = e.scheme /\ Split(r.scheme, r.credential) = Split(e.scheme, e.credential) /\ UriParams(r) = UriParams(e)
    BY <1>1, Handed
  <2> HIDE DEF r
  <2>2. TlsOf(r) = TlsOf(e) /\ NetworkOf(r) = NetworkOf(e)
    BY <2>1 DEF TlsOf, NetworkOf
  <2> QED  BY <2>1, <2>2 DEF NodeOf, r
<1>2. CASE format = "clash"
  BY <1>2, ClashHop
<1>3. CASE format = "singbox"
  BY <1>3, SingboxHop
<1> QED  BY <1>1, <1>2, <1>3

-----------------------------------------------------------------------------
(* Results.                                                                 *)

\* Over any chain of panels a row stands for one node and both of its checks
\* meet that node.
THEOREM RowsAreChecked == RepublishSpec => []RowsAreCheckedAsTheyAre
BY RepublishTypes, RowsChecked, PTL

\* Every hop hands on the node, the verification and the REALITY keys.
THEOREM RepublishingKeeps == RepublishSpec => RepublishingKeepsTheProxy
<1>1. RepublishTypeOK /\ [RepublishNext]_entryVars =>
        [(Carries(hop', current) /\ (current.dialect # "clash" \/ hop' = "url_list") /\ ~current'.lost)
            => NodeOf(current') = NodeOf(current)]_entryVars
  <2> SUFFICES ASSUME RepublishTypeOK, RepublishNext, Carries(hop', current),
                      current.dialect # "clash" \/ hop' = "url_list", ~current'.lost
               PROVE  NodeOf(current') = NodeOf(current)
    OBVIOUS
  <2>1. PICK format \in {"url_list", "clash", "singbox"} : Republished(format)
    BY DEF RepublishNext
  <2>2. IsEntry(current) /\ Spelled(current) /\ hop' = format /\ current' = Serialized(format, current)
    BY <2>1 DEF Republished, RepublishTypeOK
  <2> QED  BY <2>2, NodeHop
<1>2. RepublishTypeOK /\ [RepublishNext]_entryVars =>
        [(TlsOf(current) = "reality" /\ ~current'.lost)
            => /\ TlsOf(current') = "reality"
               /\ UriParams(current')["pbk"] = UriParams(current)["pbk"]
               /\ UriParams(current')["sid"] = UriParams(current)["sid"]]_entryVars
  <2> SUFFICES ASSUME RepublishTypeOK, RepublishNext, TlsOf(current) = "reality", ~current'.lost
               PROVE  /\ TlsOf(current') = "reality"
                      /\ UriParams(current')["pbk"] = UriParams(current)["pbk"]
                      /\ UriParams(current')["sid"] = UriParams(current)["sid"]
    OBVIOUS
  <2>1. PICK format \in {"url_list", "clash", "singbox"} : Republished(format)
    BY DEF RepublishNext
  <2>2. IsEntry(current) /\ Spelled(current) /\ current' = Serialized(format, current)
    BY <2>1 DEF Republished, RepublishTypeOK
  <2> QED  BY <2>2, RealityHop
<1>3. RepublishSpec => HopKeepsNode
  BY <1>1, RepublishTypes, PTL DEF RepublishSpec, HopKeepsNode
<1>4. RepublishSpec => RealityStays
  BY <1>2, RepublishTypes, PTL DEF RepublishSpec, RealityStays
<1> QED  BY <1>3, <1>4, ChainsKeepVerification DEF RepublishingKeepsTheProxy

\* Whichever component moves, every other keeps its types, and with them what
\* they say: links name rows, rows carry facts, entries stay spelled.
THEOREM EntriesTypes == Spec => []TypeOK
<1> DEFINE Inv == ServeInv /\ RepublishTypeOK /\ PayloadInv
<1>1. Init => Inv
  BY ServeInitInv, RepublishStarts, PayloadStarts DEF Init
<1>2. Inv /\ [Next]_<<part, serveVars, entryVars, payloadVars>> => Inv'
  <2> SUFFICES ASSUME Inv, [Next]_<<part, serveVars, entryVars, payloadVars>> PROVE Inv'
    OBVIOUS
  <2>1. [ServeNext]_serveVars /\ [RepublishNext]_entryVars /\ [PayloadNext]_payloadVars
    BY DEF Next, PayloadNext
  <2> QED  BY <2>1, ServeStepInv, RepublishSteps, PayloadSteps
<1>3. Inv => TypeOK
  BY PayloadTypes DEF ServeInv, TypeOK
<1> QED  BY <1>1, <1>2, <1>3, PTL DEF Spec
=============================================================================
