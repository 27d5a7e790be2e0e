-------------------------------- MODULE Sites --------------------------------
(***************************************************************************)
(* The configuration of the sites as the operator sees it: requests to     *)
(* change modes, exclusions and IP rules or to roll one of them back, the  *)
(* overlays they leave in ui-managed, and the pages that read them again.  *)
(*                                                                         *)
(* A request is one step that takes effect or leaves no trace but its      *)
(* snapshot, which is what module Chain shows of the steps behind it.      *)
(* Retention, torn snapshots and two forms at a time are in Chain too.     *)
(***************************************************************************)
EXTENDS Naming, OverlayFormat

CONSTANTS
    Domains,         \* the names requests come with, as they are typed
    ModeInputs,      \* modes asked for
    ExclusionLists,  \* exclusions of a PUT
    ExclusionInputs, \* exclusions of the form
    IPRuleSets,      \* IP rules of a PUT
    IPInputs,        \* entries of the IP rules form
    IPActions,       \* values of its field that selects the list
    Found,           \* WAF overlays that another version may have left
    Absent,          \* a file that does not exist
    Scopes           \* bound: the types, the names and the number of requests
                     \* of a behaviour

Types == {"waf", "exclusions", "ip-rules"}
Valid == {d \in Domains : ValidateDomain(d)}
Slugs == {DomainSlug(d) : d \in Valid}
Hosts == {Host(d) : d \in Valid}

\* The lines of the overlays.
Line ==
    [line : {"comment"}] \cup
    [line : {"header"}, domain : Name, mode : STRING \cup {None}] \cup
    [line : {"engine"}, mode : STRING] \cup
    [line : {"remove"}, type : STRING, value : STRING] \cup
    [line : {"rule"}, type : STRING, value : STRING, param : STRING, id : Nat] \cup
    [line : {"remote_ip", "not remote_ip"}, ips : Seq(IPEntry)]

\* Inputs before they are validated.
Exclusion == [type : STRING, value : STRING, param : STRING \cup {None}]
AnyEntry ==
    [fam : {4}, addr : Address(4), len : Nat \cup {None}] \cup
    [fam : {6}, addr : Address(6), len : Nat \cup {None}]

ASSUME ScopesAssumption ==
    Scopes \subseteq [types : SUBSET Types, names : SUBSET Domains, ops : Nat]
ASSUME DomainsAssumption == Domains \subseteq Name
ASSUME FoundAssumption ==
    \A o \in Found : /\ o \in Seq(Line) /\ o[2].mode # None
                     /\ \E d \in Valid : o = GenerateMode(d, o[2].mode)
\* True of every literal; no prover knows it of a given one.
ASSUME LiteralsAssumption == Modes \cup {"id"} \subseteq STRING
ASSUME AbsentAssumption == Absent \notin Seq(Line)
ASSUME InputsAssumption ==
    /\ ExclusionLists \subseteq Seq(Exclusion) /\ ExclusionInputs \subseteq Exclusion
    /\ IPRuleSets \subseteq [deny : Seq(AnyEntry), allow : Seq(AnyEntry)]
    /\ IPInputs \subseteq AnyEntry

Unset == [mode |-> {}, exclusions |-> {}, deny |-> {}, allow |-> {}]

VARIABLES
    conf,   \* ui-managed: the overlay of each type and slug
    snaps,  \* /backups/{slug}: the snapshots of each type
    ops,    \* requests so far
    scope,  \* what this behaviour works on
    asked   \* auxiliary: for each type and host, what the last effective
            \* requests asked for

vars == <<conf, snaps, ops, scope, asked>>

\* init-ui-managed.sh leaves a placeholder for the overlays that the Caddyfile
\* imports (WAF and IP rules); a WAF overlay of another version may be there.
Init ==
    /\ scope \in Scopes
    /\ conf \in [Types -> [Slugs -> {Absent, Placeholder} \cup Found]]
    /\ \A t \in Types, s \in Slugs :
         /\ t = "exclusions" \/ t \notin scope.types \/ s \notin {DomainSlug(d) : d \in scope.names}
              => conf[t][s] = Absent
         /\ t # "waf" => conf[t][s] \notin Found
         /\ conf[t][s] \in Found =>
              \E site \in parseSiteHeader(conf[t][s]) : DomainSlug(site.domain) = s
    /\ snaps = [t \in Types |-> [s \in Slugs |-> {}]]
    /\ ops = 0
    /\ asked = [t \in Types |-> [h \in Hosts |->
         LET found == conf[t][DomainSlug(h)]
         IN  IF found \in Found THEN [Unset EXCEPT !.mode = Engine(found)] ELSE Unset]]

-----------------------------------------------------------------------------
(* The chain, in one step.                                                 *)

\* Mutant: an overlay that is not there is archived all the same.
BackupOfNothing(t, s) ==
    snaps' = [snaps EXCEPT ![t][s] = @ \cup {[bytes |-> conf[t][s], asked |-> Unset]}]

\* The present state of the overlay, when there is one.
Backup(t, s) ==
    snaps' = IF conf[t][s] = Absent THEN snaps
             ELSE [snaps EXCEPT ![t][s] = @ \cup
                     {[bytes |-> conf[t][s],
                       asked |-> [h \in {g \in Hosts : DomainSlug(g) = s} |-> asked[t][h]]]}]

\* The overlay is replaced; when that or the reload fails it is as before.
runChain(t, d, bytes, want) ==
    /\ Backup(t, DomainSlug(d))
    /\ \/ /\ conf' = [conf EXCEPT ![t][DomainSlug(d)] = bytes]
          /\ asked' = [asked EXCEPT ![t][Host(d)] = want]
       \/ UNCHANGED <<conf, asked>>

Refuse == UNCHANGED <<conf, snaps, asked>>

Request(t, d) ==
    /\ t \in scope.types /\ d \in scope.names
    /\ ops < scope.ops
    /\ ops' = ops + 1
    /\ UNCHANGED scope

UpdateWAFMode(d, mode) ==
    /\ Request("waf", d)
    /\ \/ /\ ValidateDomain(d) /\ mode \in Modes
          /\ runChain("waf", d, GenerateMode(d, mode), [Unset EXCEPT !.mode = {mode}])
       \/ /\ ~(ValidateDomain(d) /\ mode \in Modes)
          /\ Refuse

UpdateExclusions(d, list, want) ==
    /\ Request("exclusions", d)
    /\ \/ /\ ValidateDomain(d) /\ validateExclusions(list)
          /\ runChain("exclusions", d, GenerateExclusions(d, list), want)
       \/ /\ ~(ValidateDomain(d) /\ validateExclusions(list))
          /\ Refuse

UpdateIPRules(d, rules, want) ==
    /\ Request("ip-rules", d)
    /\ \/ /\ ValidateDomain(d) /\ ValidateIPRules(rules)
          /\ runChain("ip-rules", d, GenerateIPRules(d, rules), want)
       \/ /\ ~(ValidateDomain(d) /\ ValidateIPRules(rules))
          /\ Refuse

\* RestoreBackup copies the bytes, whatever name is in their header; a snapshot
\* that is not there is noticed after the backup of the present state.
Rollback(t, d) ==
    /\ Request(t, d)
    /\ ValidateDomain(d)
    /\ \/ \E snap \in snaps[t][DomainSlug(d)] :
            runChain(t, d, snap.bytes, snap.asked[Host(d)])
       \/ Backup(t, DomainSlug(d)) /\ UNCHANGED <<conf, asked>>

-----------------------------------------------------------------------------
(* The handlers.                                                           *)

\* readExclusions and readIPRules: nothing when the file does not exist.
Read(t, d) ==
    LET s == DomainSlug(d)
    IN  IF s \in Slugs /\ conf[t][s] # Absent THEN conf[t][s] ELSE <<>>

\* What was asked for before, for a form to add to.
Before(t, d) == IF ValidateDomain(d) THEN asked[t][Host(d)] ELSE Unset

\* PUT mode and the mode form.
SetMode(d) == \E mode \in ModeInputs : UpdateWAFMode(d, mode)

\* PUT exclusions.
HandleSetExclusions(d) ==
    \E list \in ExclusionLists :
      UpdateExclusions(d, list, [Unset EXCEPT !.exclusions = ToSet(list)])

\* The form adds one exclusion, always by id, to those of the overlay.
HandleFormAddExclusion(d) ==
    \E ex \in ExclusionInputs :
      LET new == [ex EXCEPT !.type = "id"]
      IN  UpdateExclusions(d, Append(parseExclusionsOverlay(Read("exclusions", d)), new),
                           [Before("exclusions", d) EXCEPT !.exclusions = @ \cup {new}])

\* PUT iprules.
HandleSetIPRules(d) ==
    \E rules \in IPRuleSets :
      UpdateIPRules(d, rules, [Unset EXCEPT !.deny = ToSet(rules.deny),
                                            !.allow = ToSet(rules.allow)])

\* The form appends one entry to the list of the overlay that it selects.
HandleFormAddIPRule(d) ==
    \E e \in IPInputs, action \in IPActions :
      LET current == parseIPRulesOverlay(Read("ip-rules", d))
          before == Before("ip-rules", d)
      IN  \/ /\ action = "DENY"
             /\ UpdateIPRules(d, [current EXCEPT !.deny = Append(@, e)],
                              [before EXCEPT !.deny = @ \cup {e}])
          \/ /\ action = "ALLOW"
             /\ UpdateIPRules(d, [current EXCEPT !.allow = Append(@, e)],
                              [before EXCEPT !.allow = @ \cup {e}])
          \/ /\ action \notin {"DENY", "ALLOW"}
             /\ Request("ip-rules", d)
             /\ Refuse

Next ==
    \E d \in Domains :
      \/ SetMode(d)
      \/ HandleSetExclusions(d) \/ HandleFormAddExclusion(d)
      \/ HandleSetIPRules(d) \/ HandleFormAddIPRule(d)
      \/ \E t \in Types : Rollback(t, d)

Spec == Init /\ [][Next]_vars

-----------------------------------------------------------------------------
(* What the pages show.                                                    *)

\* The sites the WAF overlays declare.
Scan == UNION {parseSiteHeader(conf["waf"][s]) : s \in {r \in Slugs : conf["waf"][r] # Absent}}

-----------------------------------------------------------------------------
(* Properties.                                                             *)

\* Hosts whose slug no other host has: a.b.c and a-b.c share their files, and
\* nothing below is said of them.
Alone == {h \in Hosts : \A g \in Hosts : DomainSlug(g) = DomainSlug(h) => g = h}

\* The overlay of a host.
Overlay(t, h) == conf[t][DomainSlug(h)]

\* The overlays are files of known lines and a snapshot is one of a file that
\* was there (files.Backup returns early for an overlay that does not exist).
TypeOK ==
    LET IsFile(o) ==
          /\ o \in Seq(Line)
          /\ o = Placeholder \/ parseSiteHeader(o) # {}
    IN  /\ \A t \in Types, s \in Slugs :
             /\ conf[t][s] = Absent \/ IsFile(conf[t][s])
             /\ \A snap \in snaps[t][s] : IsFile(snap.bytes)
        /\ ops \in 0..scope.ops

\* The exclusions in force are those asked for, each once: a form adds to what
\* the PUTs, the other forms and the rollbacks before it left, under whatever
\* case the name was typed in (parsers of ui/overlay.go against the generator).
NothingLost ==
    \A h \in Alone :
      LET o == Overlay("exclusions", h)
          inForce == IF o = Absent THEN <<>> ELSE parseExclusionsOverlay(o)
      IN  /\ ToSet(inForce) = asked["exclusions"][h].exclusions
          /\ Len(inForce) = Cardinality(ToSet(inForce))

\* No two rules of an exclusions overlay have one id, which the engine would
\* refuse (ids are given anew, in order, after the removal of duplicates).
GeneratedIdsDistinct ==
    \A s \in Slugs :
      LET o == conf["exclusions"][s]
      IN  o # Absent => \A i, j \in DOMAIN o :
            o[i].line = "rule" /\ o[j].line = "rule" /\ o[i].id = o[j].id => i = j

Clients ==
    [fam : {4}, addr : Address(4)] \cup
    {c \in [fam : {6}, addr : Address(6)] : ~IsTo4(6, c.addr)}

\* A client is in a network of its own family.
In(c, net) == c.fam = net.fam /\ \A i \in 1..net.len : c.addr[i] = net.addr[i]

\* What an entry means as it is typed: an address alone is that address, and a
\* network of the mapped block holds the IPv4 addresses mapped there.
Means(c, e) ==
    LET len == IF e.len = None THEN Width(e.fam) ELSE e.len
    IN  \/ In(c, [e EXCEPT !.len = len])
        \/ /\ e.fam = 6 /\ c.fam = 4 /\ len >= W6 - W4
           /\ In([fam |-> 6, addr |-> Mapped \o c.addr], [e EXCEPT !.len = len])

\* The requests of exactly those clients are aborted that the rules asked for
\* deny, or that an allowlist asked for does not have: normalisation and the
\* forms' way through the overlay and back change the set of no list.
BlockedAsAsked ==
    \A h \in Alone, c \in Clients :
      LET o == Overlay("ip-rules", h)
          rules == parseIPRulesOverlay(IF o = Absent THEN <<>> ELSE o)
          want == asked["ip-rules"][h]
          In1(list) == \E i \in DOMAIN list : In(c, list[i])
          In2(set) == \E e \in set : Means(c, e)
      IN  (In1(rules.deny) \/ (rules.allow # <<>> /\ ~In1(rules.allow)))
            <=> (In2(want.deny) \/ (want.allow # {} /\ ~In2(want.allow)))

\* The list of sites has every host with a WAF overlay, under a name of its own,
\* with the mode that is in force, or marked as degraded when the mode in force
\* is none of the three; rollbacks and overlays of another version included.
ListShowsModeInForce ==
    \A h \in Alone :
      LET o == Overlay("waf", h)
          shown == {site \in Scan : Host(site.domain) = h}
      IN  /\ o \in {Absent, Placeholder} => shown = {}
          /\ o \notin {Absent, Placeholder} => Cardinality(shown) = 1
          /\ \A site \in shown :
               /\ Engine(o) = asked["waf"][h].mode
               /\ IF site.degraded THEN Engine(o) \cap Modes = {} ELSE Engine(o) = {site.mode}

\* "the UI discovers the domain either via its waf-{slug}.conf (scanner) or on
\* the first UI write" (INTEGRATION.md): a host for which the UI wrote an
\* overlay is in the list of sites.
DomainsAreDiscovered ==
    \A h \in Alone :
      (\E t \in Types : Overlay(t, h) \notin {Absent, Placeholder})
        => \E site \in Scan : Host(site.domain) = h
=============================================================================
