---------------------------- MODULE FeedDocument ----------------------------
(***************************************************************************)
(* The Feed Document: fetch downloads the Feed, checks it, writes it to    *)
(* the fixed name feed.json.fetching and renames it over feed.json.  The   *)
(* fetch command and the tick's own fetch take no lock, so two of them may *)
(* overlap.                                                                *)
(*                                                                         *)
(* A file is known by its inode: a fetcher goes on writing the one it has  *)
(* opened, whatever name leads to it by then.  A document takes two writes *)
(* at successive offsets; a file with parts of two documents is torn.  The *)
(* Feed's server is external.                                              *)
(***************************************************************************)
EXTENDS Integers, FiniteSets

CONSTANTS
  Fetchers,   \* processes that fetch
  Answers,    \* documents the server may send: sets of Offerings
  Inode,      \* inodes, enough of them
  Minimum,    \* MINIMUM_PLAUSIBLE_OFFERING_COUNT
  MaxFetches, \* bound: fetches that find a document to write
  None        \* no document, no file

ASSUME FeedAssumption ==
  /\ IsFiniteSet(Fetchers)
  /\ IsFiniteSet(Inode) /\ Cardinality(Inode) > Cardinality(Fetchers)
  /\ \A d \in Answers : IsFiniteSet(d)
  /\ Minimum \in Nat /\ MaxFetches \in Nat
  /\ \E d \in Answers : Cardinality(d) >= Minimum
  /\ None \notin Answers \cup Inode

VARIABLES
  content,    \* per inode, what its two parts hold
  feed,       \* the inode named feed.json
  fetching,   \* the inode named feed.json.fetching
  body,       \* per fetcher, the document it is writing
  open,       \* the inode it has opened
  offset,     \* how much of it is written
  fetches,    \* how many fetches opened their file
  overlapped  \* history: whether two fetchers ever wrote at a time

files == <<content, feed, fetching>>
fetch == <<body, open, offset, fetches>>
feedVars == <<files, fetch, overlapped>>

Part    == 1..2
Empty   == [p \in Part |-> None]
Writing == {f \in Fetchers : body[f] # None}

Plausible(d) == Cardinality(d) >= Minimum

(* json.load and parse_feed accept the file. *)
Whole(i) == content[i][1] # None /\ content[i][1] = content[i][2]

Document(i) == content[i][1]

-----------------------------------------------------------------------------
(* The first document comes from fetch --url, which has no Policy yet and  *)
(* promotes what is implausible, too.                                      *)
FeedInit ==
  /\ feed \in Inode
  /\ \E d \in Answers :
       content = [i \in Inode |-> IF i = feed THEN [p \in Part |-> d] ELSE Empty]
  /\ fetching = None
  /\ body = [f \in Fetchers |-> None]
  /\ open = [f \in Fetchers |-> None]
  /\ offset = [f \in Fetchers |-> 0]
  /\ fetches = 0
  /\ overlapped = FALSE

(* The inode open() gives: the one named feed.json.fetching, or a new one. *)
Opened(i) ==
  IF fetching # None THEN i = fetching ELSE i # feed /\ \A f \in Fetchers : open[f] # i

(* A document that parses and is plausible has been downloaded;            *)
(* feed.json.fetching is opened, which truncates one that is there.        *)
Open(f) ==
  /\ body[f] = None
  /\ \E d \in Answers : Plausible(d) /\ body' = [body EXCEPT ![f] = d]
  /\ \E i \in Inode :
     /\ Opened(i)
     /\ fetching' = i
     /\ open' = [open EXCEPT ![f] = i]
     /\ content' = [content EXCEPT ![i] = Empty]
  /\ offset' = [offset EXCEPT ![f] = 0]
  /\ fetches < MaxFetches /\ fetches' = fetches + 1
  /\ overlapped' = (overlapped \/ Writing # {})
  /\ UNCHANGED feed

WritePart(f) ==
  /\ body[f] # None
  /\ offset[f] < 2
  /\ content' = [content EXCEPT ![open[f]][offset[f] + 1] = body[f]]
  /\ offset' = [offset EXCEPT ![f] = @ + 1]
  /\ UNCHANGED <<feed, fetching, body, open, fetches, overlapped>>

(* The fetcher is done with its file.  An inode nothing leads to is freed. *)
Close(f) ==
  /\ content' = [i \in Inode |->
       IF i \in {feed', fetching'} \cup {open[g] : g \in Fetchers \ {f}}
       THEN content[i] ELSE Empty]
  /\ body' = [body EXCEPT ![f] = None]
  /\ open' = [open EXCEPT ![f] = None]
  /\ offset' = [offset EXCEPT ![f] = 0]

(* A write fails, and feed.json.fetching is removed, whoever wrote it. *)
WriteFails(f) ==
  /\ body[f] # None
  /\ offset[f] < 2
  /\ fetching' = None
  /\ UNCHANGED <<feed, fetches, overlapped>>
  /\ Close(f)

(* Faulty: the rename does not wait for the whole document. *)
PromoteEarly(f) ==
  /\ body[f] # None
  /\ offset[f] >= 1
  /\ feed' = IF fetching = None THEN feed ELSE fetching
  /\ fetching' = None
  /\ Close(f)
  /\ UNCHANGED <<fetches, overlapped>>

(* Faulty: the document is linked under its second name, not renamed. *)
PromoteLinked(f) ==
  /\ body[f] # None
  /\ offset[f] = 2
  /\ feed' = IF fetching = None THEN feed ELSE fetching
  /\ UNCHANGED <<fetching, fetches, overlapped>>
  /\ Close(f)

(* What is named feed.json.fetching becomes feed.json.  With nothing named *)
(* so, the rename fails and nothing is promoted.                           *)
Promote(f) ==
  /\ body[f] # None
  /\ offset[f] = 2
  /\ feed' = IF fetching = None THEN feed ELSE fetching
  /\ fetching' = None
  /\ Close(f)
  /\ UNCHANGED <<fetches, overlapped>>

(* A fetcher is killed; its temporary file stays. *)
Killed(f) ==
  /\ body[f] # None
  /\ UNCHANGED <<feed, fetching, fetches, overlapped>>
  /\ Close(f)

Fetch(f) == Open(f) \/ WritePart(f) \/ WriteFails(f) \/ Promote(f)

-----------------------------------------------------------------------------
FeedTypeOK ==
  /\ content \in [Inode -> [Part -> Answers \cup {None}]]
  /\ feed \in Inode
  /\ fetching \in (Inode \ {feed}) \cup {None}
  /\ body \in [Fetchers -> Answers \cup {None}]
  /\ open \in [Fetchers -> Inode \cup {None}]
  /\ offset \in [Fetchers -> 0..2]
  /\ fetches \in 0..MaxFetches
  /\ overlapped \in BOOLEAN

(* As long as no two fetches overlapped, feed.json is one whole document,  *)
(* whichever write fails and at whatever step a fetcher is killed, and     *)
(* what a killed one left is in no later one's way.                        *)
TornOnlyByOverlap == ~overlapped => Whole(feed)

(* "A reader sees either the old document or the new one, never a partial  *)
(* file."                                                                  *)
NeverPartial == Whole(feed)
=============================================================================
