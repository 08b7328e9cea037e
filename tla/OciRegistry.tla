---------------------------- MODULE OciRegistry ----------------------------
(***************************************************************************)
(* OciRegistry (registry.py): a package's repository on a server of the    *)
(* OCI distribution API.  publish_core asks for the version's tag, pushes  *)
(* the two blobs of the core (HEAD, then POST and PUT if it is not there)  *)
(* and puts the tag.  Each request may be answered 401, upon which _send   *)
(* exchanges the credential for a token once and sends it once more.       *)
(*                                                                         *)
(* Versions share nothing: a core's blobs carry its version in ip.toml.    *)
(***************************************************************************)
EXTENDS FiniteSets

CONSTANTS
    Publishers,     \* commands that publish; each has a core of its own
    Versions,       \* versions of the package
    Setups,         \* servers and credentials considered
    None            \* no manifest under a tag, no version

Parts == {"config", "layer"}    \* ip.toml and the .ipkg, in the order pushed
Rights == {"pull", "push"}      \* "push" includes "pull"

\* Whether anybody may pull, what each credential entitles to, and which
\* credentials are themselves a bearer token.
Setup == [open : BOOLEAN, rights : [Publishers -> Rights], static : SUBSET Publishers]

ASSUME NoneAssumption == None \notin Publishers \cup Versions
ASSUME SetupsAssumption == Setups \subseteq Setup

VARIABLES
    tags,       \* [Versions -> Publishers or None]: whose core a tag names
    blobs,      \* blobs the server holds: <<version, publisher, part>>
    setup,      \* the server's and the credentials' kind
    pc, ver,    \* the request each publisher is at, and of what version
    part,       \* the blob it is at
    token,      \* what its bearer token is good for
    retried,    \* publishers at the second attempt of a request
    swept,      \* history: blobs collected and not uploaded since
    blind,      \* history: publishers whose check was not answered 200 or 404
    behind,     \* history: publishers that checked before a tag was put
    turned      \* history: publishers whose second attempt was answered 401

serverVars == <<tags, blobs, swept>>
procVars == <<pc, ver, part, token, retried, blind>>
vars == <<serverVars, setup, procVars, behind, turned>>

Blob(v, p, b) == <<v, p, b>>

\* A command starts with the stored secret, if that is a token, or with none.
FirstToken(p) == IF p \in setup.static THEN setup.rights[p] ELSE "none"

Init ==
    /\ tags = [v \in Versions |-> None]
    /\ blobs = {}
    /\ setup \in Setups
    /\ pc = [p \in Publishers |-> "idle"]
    /\ ver = [p \in Publishers |-> None]
    /\ part = [p \in Publishers |-> "config"]
    /\ token = [p \in Publishers |-> "none"]
    /\ retried = {}
    /\ swept = {}
    /\ blind = {}
    /\ behind = {}
    /\ turned = {}

Begin(p, v) ==
    /\ pc[p] = "idle"
    /\ pc' = [pc EXCEPT ![p] = "check"]
    /\ ver' = [ver EXCEPT ![p] = v]
    /\ token' = [token EXCEPT ![p] = FirstToken(p)]
    /\ turned' = turned \ {p}
    /\ UNCHANGED <<serverVars, setup, part, retried, blind, behind>>

\* The next request, or the end of the command.
Goto(p, l, b) ==
    /\ pc' = [pc EXCEPT ![p] = l]
    /\ part' = [part EXCEPT ![p] = b]
    /\ retried' = retried \ {p}

Leave(p) ==
    /\ Goto(p, "idle", "config")
    /\ ver' = [ver EXCEPT ![p] = None]
    /\ token' = [token EXCEPT ![p] = "none"]
    /\ blind' = blind \ {p}

-----------------------------------------------------------------------------
(* Answers: whether the server lets a request through, and the exchange.   *)

Reading(p) == pc[p] \in {"check", "head"}

Allowed(p) ==
    \/ token[p] = "push"
    \/ (Reading(p) /\ (token[p] = "pull" \/ (setup.open /\ token[p] = "none")))

\* Mutant of Issued: the exchange does not pass on the scope of the challenge.
IssuedUnscoped(p) == "pull"

\* The realm issues what the challenge asks for, if the credential is good
\* for it.
Issued(p) == IF Reading(p) THEN "pull" ELSE setup.rights[p]

\* Mutant of Challenged: the second attempt does not count as one.
ChallengedForgets(p) ==
    /\ pc[p] # "idle" /\ ~Allowed(p) /\ p \notin retried
    /\ token' = [token EXCEPT ![p] = Issued(p)]
    /\ UNCHANGED <<serverVars, setup, pc, ver, part, retried, blind, behind, turned>>

\* 401, and the realm gives a token: the request is sent once more.
Challenged(p) ==
    /\ pc[p] # "idle" /\ ~Allowed(p) /\ p \notin retried
    /\ token' = [token EXCEPT ![p] = Issued(p)]
    /\ retried' = retried \cup {p}
    /\ UNCHANGED <<serverVars, setup, pc, ver, part, blind, behind, turned>>

\* Mutant of AnyOther: a HEAD that is not answered 404 has found the blob.
AnyOtherFinds(p) ==
    \/ /\ pc[p] = "check"
       /\ Goto(p, "head", "config")
       /\ blind' = blind \cup {p}
       /\ UNCHANGED <<ver, token, behind>>
    \/ /\ pc[p] = "head"
       /\ IF part[p] = "config" THEN Goto(p, "head", "layer") ELSE Goto(p, "tag", "layer")
       /\ UNCHANGED <<ver, token, blind, behind>>
    \/ /\ pc[p] \in {"post", "upload", "tag"}
       /\ Leave(p)
       /\ behind' = behind \ {p}

\* A status that the code does not name: the check takes it for "no such tag"
\* and HEAD for "no such blob"; the other requests end the command.
AnyOther(p) ==
    \/ /\ pc[p] = "check"
       /\ Goto(p, "head", "config")
       /\ blind' = blind \cup {p}
       /\ UNCHANGED <<ver, token, behind>>
    \/ /\ pc[p] = "head"
       /\ Goto(p, "post", part[p])
       /\ UNCHANGED <<ver, token, blind, behind>>
    \/ /\ pc[p] \in {"post", "upload", "tag"}
       /\ Leave(p)
       /\ behind' = behind \ {p}

\* 401, and this was the second attempt, or the realm gives no token.
Unauthorised(p) ==
    /\ ~Allowed(p)
    /\ turned' = IF p \in retried THEN turned \cup {p} ELSE turned
    /\ AnyOther(p)
    /\ UNCHANGED <<serverVars, setup>>

\* 403, 429, 5xx.
ServerError(p) ==
    /\ AnyOther(p)
    /\ UNCHANGED <<serverVars, setup, turned>>

\* A token is short-lived, but the one just issued serves the second attempt.
Expire(p) ==
    /\ token[p] \in Rights /\ p \notin retried
    /\ token' = [token EXCEPT ![p] = "stale"]
    /\ UNCHANGED <<serverVars, setup, pc, ver, part, retried, blind, behind, turned>>

-----------------------------------------------------------------------------
(* publish_core.                                                           *)

Refused(p) ==
    /\ pc[p] = "check" /\ Allowed(p) /\ tags[ver[p]] # None
    /\ Leave(p)
    /\ UNCHANGED <<serverVars, setup, behind, turned>>

\* Mutant of Unpublished: the answer to the check is not looked at.
UnpublishedAnyway(p) ==
    /\ pc[p] = "check" /\ Allowed(p)
    /\ Goto(p, "head", "config")
    /\ UNCHANGED <<serverVars, setup, ver, token, blind, behind, turned>>

Unpublished(p) ==
    /\ pc[p] = "check" /\ Allowed(p) /\ tags[ver[p]] = None
    /\ Goto(p, "head", "config")
    /\ UNCHANGED <<serverVars, setup, ver, token, blind, behind, turned>>

\* After the config the layer, after the layer the tag.
NextPart(p) ==
    IF part[p] = "config" THEN Goto(p, "head", "layer") ELSE Goto(p, "tag", "layer")

Found(p) ==
    /\ pc[p] = "head" /\ Allowed(p) /\ Blob(ver[p], p, part[p]) \in blobs
    /\ NextPart(p)
    /\ UNCHANGED <<serverVars, setup, ver, token, blind, behind, turned>>

NotFound(p) ==
    /\ pc[p] = "head" /\ Allowed(p) /\ Blob(ver[p], p, part[p]) \notin blobs
    /\ Goto(p, "post", part[p])
    /\ UNCHANGED <<serverVars, setup, ver, token, blind, behind, turned>>

UploadStarts(p) ==
    /\ pc[p] = "post" /\ Allowed(p)
    /\ Goto(p, "upload", part[p])
    /\ UNCHANGED <<serverVars, setup, ver, token, blind, behind, turned>>

Store(p) ==
    /\ blobs' = blobs \cup {Blob(ver[p], p, part[p])}
    /\ swept' = swept \ {Blob(ver[p], p, part[p])}
    /\ UNCHANGED tags

Uploaded(p) ==
    /\ pc[p] = "upload" /\ Allowed(p)
    /\ Store(p)
    /\ NextPart(p)
    /\ UNCHANGED <<setup, ver, token, blind, behind, turned>>

\* The server does not compare the manifest with its blobs.
PutTag(p) ==
    /\ tags' = [tags EXCEPT ![ver[p]] = p]
    /\ behind' = (behind \cup {q \in Publishers : ver[q] = ver[p] /\ pc[q] # "check"}) \ {p}
    /\ UNCHANGED <<blobs, swept>>

Tagged(p) ==
    /\ pc[p] = "tag" /\ Allowed(p)
    /\ PutTag(p)
    /\ Leave(p)
    /\ UNCHANGED <<setup, turned>>

\* A PUT is carried out, but the answer is lost or is an error of a proxy.
AckLost(p) ==
    /\ Allowed(p)
    /\ \/ pc[p] = "upload" /\ Store(p) /\ behind' = behind \ {p}
       \/ pc[p] = "tag" /\ PutTag(p)
    /\ Leave(p)
    /\ UNCHANGED <<setup, turned>>

\* The connection fails, the core cannot be packed, or the command is killed.
Stop(p) ==
    /\ pc[p] # "idle"
    /\ Leave(p)
    /\ behind' = behind \ {p}
    /\ UNCHANGED <<serverVars, setup, turned>>

\* The server collects a blob that no tag needs.
Collect(b) ==
    /\ b \in blobs /\ tags[b[1]] # b[2]
    /\ blobs' = blobs \ {b}
    /\ swept' = swept \cup {b}
    /\ UNCHANGED <<tags, setup, procVars, behind, turned>>

Step(p) ==
    \/ Challenged(p) \/ Unauthorised(p) \/ ServerError(p)
    \/ Refused(p) \/ Unpublished(p)
    \/ Found(p) \/ NotFound(p) \/ UploadStarts(p) \/ Uploaded(p)
    \/ Tagged(p) \/ AckLost(p) \/ Stop(p)

Next ==
    \/ \E p \in Publishers, v \in Versions : Begin(p, v)
    \/ \E p \in Publishers : Step(p) \/ Expire(p)
    \/ \E b \in blobs : Collect(b)

\* Every request is answered in the end, or its connection fails.
Spec == Init /\ [][Next]_vars
FairSpec == Spec /\ \A p \in Publishers : WF_vars(Step(p))

-----------------------------------------------------------------------------
(* Properties.                                                             *)

Blobs == Versions \X Publishers \X Parts

TypeOK ==
    /\ tags \in [Versions -> Publishers \cup {None}]
    /\ blobs \subseteq Blobs /\ swept \subseteq Blobs \ blobs
    /\ setup \in Setups
    /\ pc \in [Publishers -> {"idle", "check", "head", "post", "upload", "tag"}]
    /\ ver \in [Publishers -> Versions \cup {None}]
    /\ \A p \in Publishers : pc[p] = "idle" <=> ver[p] = None
    /\ part \in [Publishers -> Parts]
    /\ token \in [Publishers -> Rights \cup {"none", "stale"}]
    /\ retried \subseteq {p \in Publishers : pc[p] # "idle"}
    /\ blind \cup behind \subseteq {p \in Publishers : pc[p] \notin {"idle", "check"}}
    /\ turned \subseteq Publishers

\* The tag is put last, so what it names can be fetched: whatever requests fail,
\* are refused or are lost, and whoever else publishes, its two blobs are there,
\* except for one that HEAD had found and the server collected before the tag.
TaggedIsFetchable ==
    \A v \in Versions : tags[v] # None =>
        \A b \in Parts : Blob(v, tags[v], b) \in blobs \cup swept

\* A tag is overwritten only by a publisher that had checked before another put
\* it, or whose check was answered neither 200 nor 404: crashes, lost answers,
\* tokens that expire and publishes that are repeated never do it.
OverwrittenOnlyUnseen ==
    [][\A v \in Versions : tags[v] # None /\ tags'[v] # tags[v] =>
        \E p \in blind \cup behind : pc[p] = "tag" /\ ver[p] = v]_vars

\* A publisher whose credential entitles it to push is never turned away by a
\* server whose realm answers it, whatever its token was good for or has become:
\* one retry per request is enough.
OneRetryIsEnough == \A p \in turned : setup.rights[p] # "push"

\* Every publish ends, also one that is never let through: the 401s of a request
\* do not go round for ever.
RetriesEnd == \A p \in Publishers : pc[p] # "idle" ~> pc[p] = "idle"
=============================================================================
