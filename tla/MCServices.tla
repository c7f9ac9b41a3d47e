------------------------------ MODULE MCServices ------------------------------
(***************************************************************************)
(* The services around the text, which share no state here, each on a      *)
(* small instance: the initial state chooses the part that runs, and the   *)
(* others stay in one of their initial states.                             *)
(***************************************************************************)
EXTENDS UsageQuota, MediaGeneration, Accounts, Documents, DiffUtils,
        MediaLibrary, EventStream, UsageTracking, TLC

CONSTANTS o1, o2, o3, u1, u2, i1, i2, k1, k2, k3, k4

\* UsageQuota: an analysis (run by a job) and two images.
MCOwner == [o \in Operation |-> u1]
MCUnits == o1 :> 1 @@ o2 :> 2 @@ o3 :> 1

\* MediaGeneration: each provider, asked for images with and without references.
Deployment(configured, provider, up) ==
  [configured |-> configured, provider |-> provider, up |-> up]
MCDeployments == {Deployment("runpod", "runpod", {i1, i2}),
                  Deployment("runpod", "gemini-pro-image", {i1}),
                  Deployment("gemini", "gemini", {}),
                  Deployment("gemini", "gemini-pro-image", {}),
                  Deployment("local", "local", {})}

\* DiffUtils: all short texts, and longer ones with repeated and with moved lines.
MCTexts == UNION {[1..n -> {"a", "b", "--x"}] : n \in 1..2} \cup [1..3 -> {"a", "b"}]
           \cup {<<"a", "a", "b", "a", "b">>, <<"b", "a", "b", "a", "a">>, <<"b", "a", "b", "b">>}

\* UsageTracking: two calls of one user, one of another, an image.
MCPaidBy == k1 :> u1 @@ k2 :> u1 @@ k3 :> u2 @@ k4 :> u1

--------------------------------------------------------------------------
VARIABLE part

servicesVars == <<part, quotaVars, mediaVars, authVars, docVars, diffVars, libraryVars,
                  streamVars, usageVars>>

\* Of several initial states a part that does not run takes any one.
Pinned(v, name, S) == part = name \/ v = CHOOSE x \in S : TRUE

ServicesInit ==
  /\ part \in {"quota", "media", "logins", "handlers", "documents", "diffs",
              "library", "stream", "usage"}
  /\ QuotaInit /\ Pinned(subscription[u1].consumed, "quota", StartUsage)
  /\ MediaInit /\ Pinned(deployment, "media", Deployments)
  /\ DocInit /\ Pinned(doc.text, "documents", Text)
  /\ DiffInit /\ Pinned(context, "diffs", Contexts) /\ Pinned(past[1], "diffs", Texts)
  /\ AuthInit /\ LibraryInit /\ StreamInit /\ TrackingInit

\* Accounts, in two parts: logins through lockouts and deletions, beside one handler
\* at a time and one change of password; and handlers of passwords, two at a time,
\* with two changes, beside the mails about addresses before the first.
LoginsBound ==
  \A u \in User : account[u].epoch <= 1 /\ token[u] \subseteq {"reset"} /\ Underway(u) <= 1
HandlersBound ==
  \A u \in User : /\ account[u].deletion = "no" /\ account[u].attempts = 0
                  /\ token[u] \subseteq {"reset"} \/ account[u].epoch = 0

\* UsageQuota: of one operation the reservation is no longer covered by its check.
QuotaBound == Cardinality({o \in Operation : loose[o]}) <= 1

\* MediaLibrary: of one image a request has died between its UPDATEs.
LibraryBound == Cardinality(torn) <= 1

\* UsageTracking: an image is counted while no call of a model is; they share no row.
UsageBound ==
  \A i \in ImageCall : recording[i].at \notin {"called", "done"} =>
    \A c \in ModelCall : recording[c].at \in {"called", "done"}

\* The other parts stay as they are.
StayBut(name) ==
  /\ UNCHANGED part
  /\ IF name = "quota" THEN TRUE ELSE UNCHANGED quotaVars
  /\ IF name = "media" THEN TRUE ELSE UNCHANGED mediaVars
  /\ IF name \in {"logins", "handlers"} THEN TRUE ELSE UNCHANGED authVars
  /\ IF name = "documents" THEN TRUE ELSE UNCHANGED docVars
  /\ IF name = "diffs" THEN TRUE ELSE UNCHANGED diffVars
  /\ IF name = "library" THEN TRUE ELSE UNCHANGED libraryVars
  /\ IF name = "stream" THEN TRUE ELSE UNCHANGED streamVars
  /\ IF name = "usage" THEN TRUE ELSE UNCHANGED usageVars

ServicesNext ==
  \/ part = "quota" /\ StayBut("quota") /\ QuotaNext /\ QuotaBound'
  \/ part = "media" /\ StayBut("media") /\ MediaNext
  \/ part = "logins" /\ StayBut("logins") /\ AuthNext /\ LoginsBound'
  \/ part = "handlers" /\ StayBut("handlers") /\ AuthNext /\ HandlersBound'
  \/ part = "documents" /\ StayBut("documents") /\ DocNext
  \/ part = "diffs" /\ StayBut("diffs") /\ DiffNext
  \/ part = "library" /\ StayBut("library") /\ LibraryNext /\ LibraryBound'
  \/ part = "stream" /\ StayBut("stream") /\ StreamNext
  \/ part = "usage" /\ StayBut("usage") /\ TrackingNext /\ UsageBound'

ServicesSpec == ServicesInit /\ [][ServicesNext]_servicesVars

\* What tells the states of a part apart: the others never change.
ServicesView ==
  <<part, CASE part = "quota" -> quotaVars
            [] part = "media" -> mediaVars
            [] part \in {"logins", "handlers"} -> authVars
            [] part = "documents" -> docVars
            [] part = "diffs" -> diffVars
            [] part = "library" -> libraryVars
            [] part = "stream" -> streamVars
            [] part = "usage" -> usageVars>>
=============================================================================
