------------------------------ MODULE Publications ------------------------------
(***************************************************************************)
(* How the outputs of a turn become saved artifacts, how saved artifacts   *)
(* become an immutable publication (files staged one by one, the manifest  *)
(* committed last as the ready marker), how a publication is shared for a  *)
(* limited time, and how a stream becomes one object of the store.  Object *)
(* keys that the code derives from a hash are the hashed value itself.     *)
(***************************************************************************)
EXTENDS Naturals, Sequences, FiniteSets, Functions, SequencesExt

CONSTANTS Publishers,    \* publish calls that may run at once
          Requests,      \* what a call may ask for: [spec, files : set of [output, path]]
          Media,         \* the detected media type of each output file
          Streams,       \* lengths, in half parts, of the streams uploaded
          Profiles,      \* the parts explored: "capture", "publish", "upload"
          Chunks,        \* reads it takes to copy one output file
          LastVersion,   \* bound: rewrites of the live outputs
          Ttl,           \* half seconds a share lives
          LastTick,      \* bound: half seconds of the clock
          LastShare,     \* bound: shares granted
          MaxFaults      \* bound: crashes, refused calls and lost answers

Assumptions ==
  /\ {Chunks, LastVersion, Ttl, LastTick, LastShare, MaxFaults} \subseteq Nat
  /\ Streams \subseteq Nat /\ Profiles \subseteq {"capture", "publish", "upload"} /\ Chunks > 0

VARIABLES uses,        \* the part explored in this behaviour
          live,        \* version of each file under /workspace/outputs
          capture,     \* the copy of the outputs of the finished turn
          listed,      \* the turn's saved artifacts, once its end is published
          deleted,     \* artifacts the owner deleted
          public,      \* the publication objects of the bucket
          publisher,   \* each publish call
          shares,      \* share objects of the bucket
          access,      \* the signed policy handed out last
          clock,
          upload,      \* one multipart upload
          faults

vars == <<uses, live, capture, listed, deleted, public, publisher, shares,
          access, clock, upload, faults>>

Outputs == DOMAIN Media
Artifact == [output : Outputs, bytes : Seq(1..LastVersion)]
NoArtifact == [output |-> "", bytes |-> <<>>]
Index == <<"index.html">>
ManifestPath == <<"_rat", "manifest.json">>
Blob(a) == [tag |-> "blob", artifact |-> a]
Page == [tag |-> "page", artifact |-> NoArtifact]
Manifest == [tag |-> "manifest", artifact |-> NoArtifact]

NoCapture == [at |-> "idle", todo |-> {}, bytes |-> <<>>, saved |-> {}]
NoPublication == [spec |-> <<>>, files |-> {}]
IdlePublisher == [at |-> "idle", id |-> NoPublication, todo |-> {}]
NoUpload == [at |-> "idle", length |-> 0, read |-> 0, parts |-> <<>>,
             open |-> FALSE, object |-> -1, reported |-> FALSE]

\* The artifacts of a turn that ended quietly.
Saved == {[output |-> o, bytes |-> [i \in 1..Chunks |-> 1]] : o \in Outputs}

Init ==
  /\ uses \in Profiles
  /\ live = [o \in Outputs |-> 1]
  /\ capture = NoCapture /\ deleted = {}
  /\ listed = IF uses = "publish" THEN Saved ELSE {}
  /\ public = <<>>
  /\ publisher = [p \in Publishers |-> IdlePublisher]
  /\ shares = {} /\ access = {} /\ clock = 0
  /\ upload = NoUpload /\ faults = 0

Fault == faults < MaxFaults /\ faults' = faults + 1
Fine == UNCHANGED faults

-----------------------------------------------------------------------------
(* Saving the outputs of a finished turn.                                  *)

Rewrite(o) ==
  /\ uses = "capture" /\ listed = {} /\ live[o] < LastVersion
  /\ live' = [live EXCEPT ![o] = @ + 1]
  /\ UNCHANGED <<uses, capture, listed, deleted, public, publisher, shares,
                 access, clock, upload, faults>>

Capture ==
  /\ uses = "capture" /\ capture.at = "idle" /\ listed = {}
  /\ capture' = [NoCapture EXCEPT !.at = "reading", !.todo = Outputs]
  /\ UNCHANGED <<uses, live, listed, deleted, public, publisher, shares,
                 access, clock, upload, faults>>

\* Every chunk must carry the version of the chunks before it.
SameFile(bytes, version) == \A i \in DOMAIN bytes : bytes[i] = version

ReadOutput ==
  /\ capture.at = "reading" /\ capture.todo # {}
  /\ LET o == CHOOSE x \in capture.todo : TRUE
         bytes == Append(capture.bytes, live[o])
     IN \/ /\ SameFile(capture.bytes, live[o]) /\ Len(bytes) < Chunks
           /\ capture' = [capture EXCEPT !.bytes = bytes] /\ Fine
        \/ /\ SameFile(capture.bytes, live[o]) /\ Len(bytes) = Chunks
           /\ capture' = [capture EXCEPT !.todo = @ \ {o}, !.bytes = <<>>,
                            !.saved = @ \cup {[output |-> o, bytes |-> bytes]}]
           /\ Fine
        \/ ~SameFile(capture.bytes, live[o]) /\ capture' = NoCapture /\ Fine
        \/ Fault /\ capture' = NoCapture      \* a read, a put or the worker fails
  /\ UNCHANGED <<uses, live, listed, deleted, public, publisher, shares,
                 access, clock, upload>>

PublishTurn ==
  /\ capture.at = "reading" /\ capture.todo = {}
  /\ listed' = capture.saved /\ capture' = NoCapture
  /\ UNCHANGED <<uses, live, deleted, public, publisher, shares, access,
                 clock, upload, faults>>

DeleteArtifact(a) ==
  /\ a \in listed \ deleted /\ deleted' = deleted \cup {a}
  /\ UNCHANGED <<uses, live, capture, listed, public, publisher, shares,
                 access, clock, upload, faults>>

-----------------------------------------------------------------------------
(* Planning: which objects a publication of these files consists of.       *)

Asset(path) == <<"assets", Last(path)>>
At(files, path) == {f \in files : f.path = path}
Kind(f) == Media[f.artifact.output]
Copy(f, path) == [path |-> path, object |-> Blob(f.artifact)]
Generated == [path |-> Index, object |-> Page]

FilePlan(spec, files) ==
  IF At(files, spec.path) = {} THEN {}
  ELSE {Generated} \cup {Copy(f, Asset(f.path)) : f \in At(files, spec.path)}

VideoPlan(spec, files) ==
  LET video == At(files, spec.path)
      poster == At(files, spec.poster)
      good == /\ video # {} /\ \A f \in video : Kind(f) = "video"
              /\ spec.poster # <<>> =>
                   /\ poster # {} /\ \A f \in poster : Kind(f) = "image"
                   /\ Asset(spec.poster) # Asset(spec.path)
  IN IF good THEN {Generated} \cup {Copy(f, Asset(f.path)) : f \in video \cup poster} ELSE {}

SitePlan(spec, files) ==
  LET prefix == spec.root
      entry == IF spec.entry = <<>> THEN Index ELSE spec.entry
      below == {f \in files : IsStrictPrefix(prefix, f.path)}
      chosen == {Copy(f, SubSeq(f.path, Len(prefix) + 1, Len(f.path))) : f \in below}
      clash == entry # Index /\ At(chosen, Index) # {}
  IN IF At(files, prefix \o entry) = {} \/ clash THEN {}
     ELSE chosen \cup (IF entry = Index THEN {} ELSE {Generated})

Plan(id) ==
  CASE id.spec.kind = "file" -> FilePlan(id.spec, id.files)
    [] id.spec.kind = "video" -> VideoPlan(id.spec, id.files)
    [] id.spec.kind = "site" -> SitePlan(id.spec, id.files)

PlanIsValid(plan) ==
  /\ plan # {} /\ At(plan, Index) # {}
  /\ \A f, g \in plan : f.path = g.path => f = g
  /\ \A f \in plan : Head(f.path) # "_rat"

SpecIsValid(spec) ==
  /\ spec.kind \in {"file", "site", "video"}
  /\ spec.kind = "site" => spec.path = <<>> /\ spec.poster = <<>>
  /\ spec.kind # "site" => spec.path # <<>> /\ spec.root = <<>> /\ spec.entry = <<>>
  /\ spec.kind = "file" => spec.poster = <<>>

\* Neither a path nor an artifact is selected twice.
RequestIsValid(r) ==
  \A f, g \in r.files : f.path = g.path \/ f.output = g.output => f = g

\* The identity of a publication is its whole content.
Identity(r) ==
  [spec |-> r.spec,
   files |-> {[path |-> f.path, artifact |-> a] :
                <<f, a>> \in {<<g, b>> \in r.files \X listed : g.output = b.output}}]

-----------------------------------------------------------------------------
(* One publish call.                                                       *)

Put(key, object) == [k \in DOMAIN public \cup {key} |-> IF k = key THEN object ELSE public[k]]
Key(id, path) == [id |-> id, path |-> path]
Step(p, next) == publisher' = [publisher EXCEPT ![p] = next]
OnlyPublisher == UNCHANGED <<uses, live, capture, listed, deleted, clock, access, upload>>

\* The artifacts are resolved, the deleted ones refused, the identity derived.
Resolve(p) ==
  /\ uses = "publish" /\ publisher[p].at = "idle" /\ Cardinality(shares) < LastShare
  /\ \E r \in Requests :
       /\ SpecIsValid(r.spec) /\ RequestIsValid(r)
       /\ \A f \in r.files : \E a \in listed \ deleted : a.output = f.output
       /\ Step(p, [IdlePublisher EXCEPT !.at = "look", !.id = Identity(r)])
  /\ OnlyPublisher /\ UNCHANGED <<public, shares, faults>>

IsCommitted(id) == Key(id, ManifestPath) \in DOMAIN public

\* A committed publication is reused; an unreadable one ends the call.
Look(p) ==
  /\ publisher[p].at = "look"
  /\ LET me == publisher[p]
         plan == Plan(me.id)
     IN \/ /\ IsCommitted(me.id)
           /\ Step(p, [me EXCEPT !.at = "grant"]) /\ Fine
        \/ /\ ~IsCommitted(me.id) /\ PlanIsValid(plan)
           /\ Step(p, [me EXCEPT !.at = "stage", !.todo = plan]) /\ Fine
        \/ /\ ~IsCommitted(me.id) /\ ~PlanIsValid(plan)
           /\ Step(p, IdlePublisher) /\ Fine
        \/ Fault /\ Step(p, IdlePublisher)
  /\ OnlyPublisher /\ UNCHANGED <<public, shares>>

\* A call of the store takes effect and is answered, or takes effect and is
\* not, or does not; a call that fails ends the publish call, as a crash does.
Store(p, key, object, next) ==
  \/ public' = Put(key, object) /\ Step(p, next) /\ Fine
  \/ public' \in {public, Put(key, object)} /\ Step(p, IdlePublisher) /\ Fault

Stage(p) ==
  /\ publisher[p].at = "stage" /\ publisher[p].todo # {}
  /\ LET me == publisher[p]
         f == CHOOSE x \in me.todo : TRUE
     IN Store(p, Key(me.id, f.path), f.object, [me EXCEPT !.todo = @ \ {f}])
  /\ OnlyPublisher /\ UNCHANGED shares

\* Mutant: the manifest is committed while files are still to be staged.
MutantCommit(p) ==
  /\ publisher[p].at = "stage"
  /\ Store(p, Key(publisher[p].id, ManifestPath), Manifest, [publisher[p] EXCEPT !.at = "grant"])
  /\ OnlyPublisher /\ UNCHANGED shares
Commit(p) ==
  /\ publisher[p].at = "stage" /\ publisher[p].todo = {}
  /\ Store(p, Key(publisher[p].id, ManifestPath), Manifest, [publisher[p] EXCEPT !.at = "grant"])
  /\ OnlyPublisher /\ UNCHANGED shares

NewShare(p) == [id |-> publisher[p].id, by |-> p, expires |-> clock + Ttl]

Grant(p) ==
  /\ publisher[p].at = "grant"
  /\ LET share == NewShare(p)
     IN \/ shares' = shares \cup {share} /\ Fine
        \/ shares' \in {shares, shares \cup {share}} /\ Fault
  /\ Step(p, IdlePublisher)
  /\ OnlyPublisher /\ UNCHANGED public

-----------------------------------------------------------------------------
(* Redeeming a share.                                                      *)

Tick ==
  /\ uses = "publish" /\ shares # {} /\ clock < LastTick /\ clock' = clock + 1
  /\ UNCHANGED <<uses, live, capture, listed, deleted, public, publisher, shares,
                 access, upload, faults>>

\* The signed policy counts whole seconds.
PolicyEnd(expires) == expires \div 2
Allows(policy) == clock \div 2 < policy.until

Redeem(share) ==
  /\ share \in shares
  /\ share.expires > clock
  /\ access' = {[expires |-> share.expires, until |-> PolicyEnd(share.expires)]}
  /\ UNCHANGED <<uses, live, capture, listed, deleted, public, publisher, shares,
                 clock, upload, faults>>

-----------------------------------------------------------------------------
(* Streaming one object: parts of two half parts, then one completing call.*)

Half == 2
OnlyUpload == UNCHANGED <<uses, live, capture, listed, deleted, public, publisher,
                          shares, access, clock>>

CreateUpload ==
  /\ uses = "upload" /\ upload.at = "idle"
  /\ \E length \in Streams :
       upload' = [NoUpload EXCEPT !.at = "reading", !.length = length, !.open = TRUE]
  /\ OnlyUpload /\ Fine

\* The next chunks of the stream; a full part is sent at once.
Pending == upload.read - FoldSeq(LAMBDA part, sum : part + sum, 0, upload.parts)
ReadStream ==
  /\ upload.at = "reading"
  /\ \/ /\ upload.read < upload.length /\ Pending + 1 < Half
        /\ upload' = [upload EXCEPT !.read = @ + 1] /\ Fine
     \/ /\ upload.read < upload.length /\ Pending + 1 = Half
        /\ upload' = [upload EXCEPT !.read = @ + 1, !.parts = Append(@, Half)] /\ Fine
     \/ Fault /\ upload' = [upload EXCEPT !.at = "failed"]
  /\ OnlyUpload

\* The rest is the final part; no part at all is an empty object, put whole.
FinishStream ==
  /\ upload.at = "reading" /\ upload.read = upload.length /\ upload.length > 0
  /\ \/ upload' = [upload EXCEPT !.at = "complete",
                      !.parts = IF Pending > 0 THEN Append(@, Pending) ELSE @] /\ Fine
     \/ Fault /\ upload' = [upload EXCEPT !.at = "failed"]
  /\ OnlyUpload

PutEmpty ==
  /\ upload.at = "reading" /\ upload.length = 0
  /\ \/ upload' = [upload EXCEPT !.at = "done", !.open = FALSE, !.object = 0] /\ Fine
     \/ Fault /\ upload' = [upload EXCEPT !.at = "over"]  \* the abort fails: no report
     \/ Fault /\ upload' = [upload EXCEPT !.at = "over", !.open = FALSE]
  /\ OnlyUpload

CompleteUpload ==
  /\ upload.at = "complete"
  /\ LET whole == FoldSeq(LAMBDA part, sum : part + sum, 0, upload.parts)
     IN \/ upload' = [upload EXCEPT !.at = "done", !.open = FALSE, !.object = whole] /\ Fine
        \/ Fault /\ upload' = [upload EXCEPT !.at = "failed", !.open = FALSE, !.object = whole]
        \/ Fault /\ upload' = [upload EXCEPT !.at = "failed"]
  /\ OnlyUpload

\* An upload that is already gone counts as aborted.
AbortUpload ==
  /\ upload.at = "failed"
  /\ \/ upload' = [upload EXCEPT !.at = "over", !.open = FALSE] /\ Fine
     \/ Fault /\ upload' = [upload EXCEPT !.at = "over", !.reported = TRUE]
  /\ OnlyUpload

-----------------------------------------------------------------------------
Next ==
  \/ \E o \in Outputs : Rewrite(o)
  \/ Capture \/ ReadOutput \/ PublishTurn \/ Tick
  \/ \E a \in listed : DeleteArtifact(a)
  \/ \E p \in Publishers : Resolve(p) \/ Look(p) \/ Stage(p) \/ Commit(p) \/ Grant(p)
  \/ \E share \in shares : Redeem(share)
  \/ CreateUpload \/ ReadStream \/ FinishStream \/ PutEmpty \/ CompleteUpload \/ AbortUpload

Spec == Init /\ [][Next]_vars

-----------------------------------------------------------------------------
TypeOK ==
  /\ uses \in Profiles
  /\ live \in [Outputs -> 1..LastVersion]
  /\ capture.at \in {"idle", "reading"} /\ capture.todo \subseteq Outputs
  /\ Len(capture.bytes) < Chunks
  /\ \A a \in listed \cup capture.saved : a.output \in Outputs /\ Len(a.bytes) = Chunks
  /\ deleted \subseteq listed
  /\ \A k \in DOMAIN public : public[k].tag \in {"blob", "page", "manifest"}
  /\ \A p \in Publishers : publisher[p].at \in {"idle", "look", "stage", "grant"}
  /\ \A share \in shares : share.by \in Publishers /\ share.expires \in Nat
  /\ clock \in 0..LastTick /\ faults \in 0..MaxFaults
  /\ upload.at \in {"idle", "reading", "complete", "failed", "done", "over"}

Committed == {k.id : k \in {j \in DOMAIN public : public[j].tag = "manifest"}}

\* A saved artifact is one version of its file, however the agent's processes
\* rewrite the file while it is being copied.
ArtifactIsOneVersion == \A a \in listed : Cardinality(Range(a.bytes)) = 1

\* Whoever finds a manifest finds every object it names, with the bytes of the
\* artifact it was planned from: whichever of several publishers of the same
\* content crashed, lost an answer or came late.
ManifestIsReady ==
  \A id \in Committed : \A f \in Plan(id) :
    /\ Key(id, f.path) \in DOMAIN public
    /\ public[Key(id, f.path)] = f.object

\* A share leads to a committed publication, and no signed policy outlasts the
\* share it was signed for.
ShareIsTrue ==
  /\ \A share \in shares : share.id \in Committed
  /\ \A policy \in access : Allows(policy) => clock < policy.expires

\* A stored object is the whole stream, and an upload that is over is gone or
\* its leak is reported (but for the upload of an empty stream).
StreamIsWhole ==
  /\ upload.object # -1 => upload.object = upload.length
  /\ upload.at \in {"done", "over"} => ~upload.open \/ upload.reported \/ upload.length = 0

PublishingIsSafe == ArtifactIsOneVersion /\ ManifestIsReady /\ ShareIsTrue /\ StreamIsWhole
=============================================================================
