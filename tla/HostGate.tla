------------------------------- MODULE HostGate -------------------------------
(***************************************************************************)
(* The address policy shared by the source fetcher and the probe           *)
(* (fumox-core ssrf.rs, vet_host and vet_url of fetcher.rs).  An address   *)
(* is [form, range]: how it is written, "v4" or one of the IPv6 forms, and *)
(* the range it leads to, for a form that embeds an IPv4 address the range *)
(* of that one.  A lookup that fails, times out or finds nothing is the    *)
(* empty answer.                                                           *)
(***************************************************************************)
EXTENDS Naturals, Sequences, FiniteSets, SequencesExt, Positions

Families == {"any", "ipv4", "ipv6"}
Embedding == {"mapped", "compatible", "nat64", "6to4"}
\* Forms the policy does not look into, as its comment says.
Undecoded == {"teredo", "translated"}
Refused4 == {"loopback", "private", "link-local", "unspecified", "broadcast", "multicast",
             "this network", "cgnat", "benchmark", "ietf", "test-net"}
Refused6 == {"loopback", "unspecified", "multicast", "link-local", "unique-local", "site-local"}

OpenRanges == {"public", "public, another"}
Address == [form : {"v4"} \cup Embedding, range : OpenRanges \cup Refused4]
           \cup [form : {"native"}, range : OpenRanges \cup Refused6]
           \cup [form : Undecoded, range : OpenRanges \cup Refused4]
\* Where the policy lets a connection go.
LeadsOut(a) == a.form \in Undecoded \/ a.range \in OpenRanges

is_ipv4(a) == a.form = "v4"
family_matches(a, family) ==
    family = "any" \/ (family = "ipv4" /\ is_ipv4(a)) \/ (family = "ipv6" /\ ~is_ipv4(a))

\* Mutant: only the mapped form is unwrapped.
check_ip_mapped_only(a, allow) ==
    \/ allow \/ a.form \in Undecoded
    \/ a.form \in {"v4", "mapped"} /\ a.range \notin Refused4
    \/ a.form \in (Embedding \ {"mapped"}) \cup {"native"} /\ a.range \notin Refused6
check_ip(a, allow) ==
    \/ allow
    \/ a.form \in Undecoded
    \/ a.form \in Embedding \cup {"v4"} /\ a.range \notin Refused4
    \/ a.form = "native" /\ a.range \notin Refused6

NoAddress == [form |-> "none", range |-> "none"]
OfFamily(addrs, family) == {i \in DOMAIN addrs : family_matches(addrs[i], family)}
FirstAt(addrs, positions) == IF positions = {} THEN NoAddress ELSE addrs[Min(positions)]

pick_vetted(addrs, family) ==
    IF family = "any" /\ OfFamily(addrs, "ipv4") # {} THEN FirstAt(addrs, OfFamily(addrs, "ipv4"))
    ELSE FirstAt(addrs, OfFamily(addrs, family))

-----------------------------------------------------------------------------
(* The fetcher: every address of the family is vetted, one of them pinned.  *)

\* The address to connect to, NoAddress for a refusal.
vet_host(answer, allow, family) ==
    IF \A i \in OfFamily(answer, family) : check_ip(answer[i], allow) THEN pick_vetted(answer, family) ELSE NoAddress

-----------------------------------------------------------------------------
(* The probe: the vetted addresses, at most `most` of them.                 *)

Distinct(addrs) == Entries(addrs, {i \in DOMAIN addrs : \A j \in 1..i - 1 : addrs[j] # addrs[i]})

\* Mutant: the head of the list, whatever it holds.
cap_vetted_truncates(addrs, most) == SubSeq(addrs, 1, IF Len(addrs) < most THEN Len(addrs) ELSE most)

\* A slot for the first address of each family, the others in order.
Reserved(addrs) == {i \in DOMAIN addrs : \A j \in 1..i - 1 : is_ipv4(addrs[j]) # is_ipv4(addrs[i])}
cap_vetted(addrs, most) ==
    IF Len(addrs) <= most THEN addrs
    ELSE Entries(addrs, Reserved(addrs) \cup
                        Firsts(DOMAIN addrs \ Reserved(addrs), most - Cardinality(Reserved(addrs))))

\* The list to dial, << >> for a refusal.
vet_resolved_addrs(answer, allow, most) ==
    IF \A i \in DOMAIN answer : check_ip(answer[i], allow) THEN cap_vetted(Distinct(answer), most) ELSE << >>
=============================================================================
