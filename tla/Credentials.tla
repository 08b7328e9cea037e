----------------------------- MODULE Credentials -----------------------------
(***************************************************************************)
(* The credentials file (credentials.py) under `hdlpkg login` and `hdlpkg  *)
(* logout`.  Each loads the whole file, changes one host, and saves the    *)
(* whole file through one temporary name that every such command shares.   *)
(* Nothing locks the file, and a login may wait between load and save.     *)
(*                                                                         *)
(* As in Cache, names and files are apart: `name` is the file under        *)
(* credentials.toml, `temp` the one under credentials.toml.tmp.  A text is *)
(* a sequence of entries, a TOML table each, or Torn: text that does not   *)
(* parse.  Secrets have any length, so what is left of a longer text that  *)
(* another one is written over is any of its later entries, or torn.       *)
(***************************************************************************)
EXTENDS Integers, Sequences, FiniteSets

CONSTANTS
    Procs,      \* processes that log in or out
    Hosts,      \* registry hosts, as numbers: to_toml sorts them
    Secrets,    \* a secret with its user name, if any
    Files,      \* file identities
    Absent,     \* no file; no credential
    Torn        \* a text that does not parse

ASSUME HostsAssumption == Hosts \subseteq Nat /\ IsFiniteSet(Hosts) /\ Hosts # {}
ASSUME AbsentAssumption == Absent \notin Files \cup Secrets
ASSUME TornAssumption == Torn \notin Seq([host : Hosts, secret : Secrets])

VARIABLES
    name,       \* the file under the path of the store, or Absent
    temp,       \* the file under the temporary name, or Absent
    content,    \* [Files -> Texts]
    stage,      \* where each process is in load, change, save
    host,       \* the host it logs in to or out of
    store,      \* the store it will save
    fd,         \* the file its open descriptor leads to
    behind,     \* history: who loaded a store that has been changed since
    shared,     \* history: files that two writers, or a writer and another's
                \* rename, had at a time
    last        \* history: the store the last rename was to publish

fileVars == <<name, temp, content>>
procVars == <<stage, host, store, fd>>
csVars   == <<fileVars, procVars, behind, shared, last>>

Stores == [Hosts -> Secrets \cup {Absent}]
Nobody == [h \in Hosts |-> Absent]

\* CredentialStore.to_toml: a table per host, sorted by host.
Known(s) == {h \in Hosts : s[h] # Absent}
Rank(h, K) == Cardinality({g \in K : g <= h})
NthHost(i, K) == CHOOSE h \in K : Rank(h, K) = i
ToToml(s) ==
    [i \in 1..Cardinality(Known(s)) |->
        LET h == NthHost(i, Known(s)) IN [host |-> h, secret |-> s[h]]]

\* CredentialStore.from_toml: an empty text is an empty store, and what is no
\* TOML is refused.  A table declared twice is no TOML, so such a text counts as
\* Torn from the start.
NoTableTwice(text) ==
    \A i, j \in DOMAIN text : text[i].host = text[j].host => i = j
Parses(text) == text # Torn
FromToml(text) ==
    [h \in Hosts |->
        IF \E i \in DOMAIN text : text[i].host = h
        THEN text[CHOOSE i \in DOMAIN text : text[i].host = h].secret
        ELSE Absent]

\* A text written from the start of a file that holds another one, which was
\* written after the file was truncated for the last time.
Overlay(new, old) ==
    IF old = <<>> THEN {new}
    ELSE IF new = <<>> THEN {old}
    ELSE {Torn, new} \cup
         (IF old = Torn THEN {}
          ELSE {text \in {new \o SubSeq(old, i, Len(old)) : i \in 2..Len(old)} :
                    NoTableTwice(text)})

Saving(p) == stage[p] \in {"write", "rename"}
InUse(f) == f \in {name, temp} \/ \E p \in Procs : Saving(p) /\ fd[p] = f

\* The file that opening the temporary name for writing leads to: an existing
\* one, or one that is created.
Openable == IF temp # Absent THEN {temp} ELSE {f \in Files : ~InUse(f)}

\* Whoever is between its load and its rename works on a store of the past.
LeftBehind(p) == {q \in Procs \ {p} : stage[q] # "idle"}

CSInit ==
    /\ name = Absent
    /\ temp = Absent
    /\ content = [f \in Files |-> <<>>]
    /\ stage = [p \in Procs |-> "idle"]
    /\ host \in [Procs -> {CHOOSE h \in Hosts : TRUE}]
    /\ store = [p \in Procs |-> Nobody]
    /\ fd = [p \in Procs |-> Absent]
    /\ behind = {}
    /\ shared = {}
    /\ last = Nobody

\* The command ends: it printed its success, raised, or was killed.
Ends(p) ==
    /\ stage' = [stage EXCEPT ![p] = "idle"]
    /\ host' = [host EXCEPT ![p] = CHOOSE h \in Hosts : TRUE]
    /\ store' = [store EXCEPT ![p] = Nobody]
    /\ fd' = [fd EXCEPT ![p] = Absent]

-----------------------------------------------------------------------------
Loaded == IF name = Absent THEN Nobody ELSE FromToml(content[name])

\* Mutant of Changed: the store starts anew.
ChangedAnew(s, h, c) == [Nobody EXCEPT ![h] = c]

\* with_token (c a secret) or without (c = Absent).
Changed(s, h, c) == [s EXCEPT ![h] = c]

\* A file that does not parse raises: a broken store refuses every login and
\* logout, the one that would mend it included.
Refuses(p) ==
    /\ stage[p] = "idle"
    /\ name # Absent
    /\ ~Parses(content[name])
    /\ UNCHANGED csVars

\* load_credentials, then with_token or without.
Loads(p) ==
    /\ stage[p] = "idle"
    /\ name # Absent => Parses(content[name])
    /\ \E h \in Hosts, c \in Secrets \cup {Absent} :
        /\ stage' = [stage EXCEPT ![p] = "open"]
        /\ host' = [host EXCEPT ![p] = h]
        /\ store' = [store EXCEPT ![p] = Changed(Loaded, h, c)]
    /\ UNCHANGED <<fileVars, fd, behind, shared, last>>

\* Mutant of OpenTmp: the file is not truncated.
OpenTmpAppending(p) ==
    /\ stage[p] = "open"
    /\ \E f \in Openable :
        /\ temp' = f
        /\ content' = IF temp # Absent THEN content ELSE [content EXCEPT ![f] = <<>>]
        /\ fd' = [fd EXCEPT ![p] = f]
        /\ shared' = IF \E q \in Procs : Saving(q) /\ fd[q] = f
                     THEN shared \cup {f} ELSE shared \ {f}
    /\ stage' = [stage EXCEPT ![p] = "write"]
    /\ UNCHANGED <<name, host, store, behind, last>>

\* tmp.write_text opens the shared name: what it leads to is truncated, under
\* another writer's descriptor too; or else a file is created.
OpenTmp(p) ==
    /\ stage[p] = "open"
    /\ \E f \in Openable :
        /\ temp' = f
        /\ content' = [content EXCEPT ![f] = <<>>]
        /\ fd' = [fd EXCEPT ![p] = f]
        /\ shared' = IF \E q \in Procs : Saving(q) /\ fd[q] = f
                     THEN shared \cup {f} ELSE shared \ {f}
    /\ stage' = [stage EXCEPT ![p] = "write"]
    /\ UNCHANGED <<name, host, store, behind, last>>

\* The text goes out in one write, at the start of the file.
WriteTmp(p) ==
    /\ stage[p] = "write"
    /\ \E text \in Overlay(ToToml(store[p]), content[fd[p]]) :
        content' = [content EXCEPT ![fd[p]] = text]
    /\ stage' = [stage EXCEPT ![p] = "rename"]
    /\ behind' = IF fd[p] = name THEN behind \cup LeftBehind(p) ELSE behind
    /\ UNCHANGED <<name, temp, host, store, fd, shared, last>>

\* chmod, then tmp.replace(target): the command has succeeded.
Replace(p) ==
    /\ stage[p] = "rename"
    /\ temp # Absent
    /\ name' = temp
    /\ temp' = Absent
    /\ shared' = IF temp = fd[p] THEN shared ELSE shared \cup {temp}
    /\ behind' = (behind \cup LeftBehind(p)) \ {p}
    /\ last' = store[p]
    /\ Ends(p)
    /\ UNCHANGED content

\* The temporary name is gone: another process renamed it (FileNotFoundError).
ReplaceFails(p) ==
    /\ stage[p] = "rename"
    /\ temp = Absent
    /\ Ends(p)
    /\ behind' = behind \ {p}
    /\ UNCHANGED <<fileVars, shared, last>>

\* A signal, or a write that fails: the temporary file stays as it is.
Dies(p) ==
    /\ stage[p] # "idle"
    /\ Ends(p)
    /\ behind' = behind \ {p}
    /\ UNCHANGED <<fileVars, shared, last>>

CSNext == \E p \in Procs :
    \/ Refuses(p) \/ Loads(p) \/ OpenTmp(p) \/ WriteTmp(p)
    \/ Replace(p) \/ ReplaceFails(p) \/ Dies(p)

CSSpec == CSInit /\ [][CSNext]_csVars

-----------------------------------------------------------------------------
CSTypeOK ==
    /\ {name, temp} \subseteq Files \cup {Absent}
    /\ content \in [Files -> Seq([host : Hosts, secret : Secrets]) \cup {Torn}]
    /\ stage \in [Procs -> {"idle", "open", "write", "rename"}]
    /\ host \in [Procs -> Hosts]
    /\ store \in [Procs -> Stores]
    /\ fd \in [Procs -> Files \cup {Absent}]
    /\ behind \subseteq Procs
    /\ shared \subseteq Files
    /\ last \in Stores

\* A store whose file only one writer had holds exactly what that login or
\* logout was to leave, whoever died before and left whatever temporary file
\* (save_credentials: "Write *store* to disk atomically").
PublishedIsLastSave ==
    name # Absent /\ name \notin shared => content[name] = ToToml(last)

\* What a command would read of the store now.
Stored == IF name = Absent THEN Nobody
          ELSE IF Parses(content[name]) THEN FromToml(content[name]) ELSE Torn

\* A login or logout changes no other host's credential, and no death changes
\* any, but when two saves overlapped: one worked on a store that has changed
\* since it was loaded, or two had one temporary file.
OnlyOverlapLosesOthers ==
    [][ \/ Stored' = Stored
        \/ name \in shared
        \/ \E p \in Procs :
            /\ stage[p] = "rename" /\ name' = temp
            /\ \/ p \in behind
               \/ name' \in shared'
               \/ \A h \in Hosts \ {host[p]} : Stored'[h] = Stored[h] ]_csVars
=============================================================================
