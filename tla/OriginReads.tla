------------------------------ MODULE OriginReads ----------------------------
(***************************************************************************)
(* How a signed record of an actor or of a scheduler is read: the manifest   *)
(* of the installation names the directory of the records and the key that    *)
(* signs them, the record and its signature are read from that directory, and *)
(* the record of an actor is read again once it has verified.  Every file is  *)
(* read twice, in pieces, from directories that are held open, while whoever  *)
(* maintains the installation writes over the same files, or puts another     *)
(* directory in the place of the records.                                     *)
(***************************************************************************)
EXTENDS Integers

CONSTANTS OriginRoots,    \* paths a manifest may name
          OriginKeys,     \* keys that sign records
          MaxOriginWrites \* writes made during a read

ASSUME OriginAssumption == OriginRoots # {} /\ OriginKeys # {} /\ MaxOriginWrites \in Nat

VARIABLES
    originFile,  \* the manifest: a root and a key
    rootAt,      \* the directory at each path
    recordFiles, \* the record and the signature in each directory
    reader,      \* the read
    published,   \* what the manifest has said since the read began
    signed,      \* what was signed, and with which key
    originWrites

originVars == <<originFile, rootAt, recordFiles, reader, published, signed, originWrites>>
writtenVars == <<originFile, rootAt, recordFiles, published, signed, originWrites>>

(* A file has a head and a tail, read one after the other, and an identity that
   every write changes.  The head of a record is the key it names, its tail the
   payload; the head of a signature is the record it was made for. *)
OriginIdentities == 0 .. MaxOriginWrites
SignedRecords == [head : OriginKeys, tail : {"worker", "reviewer"}]
Manifests == [id : OriginIdentities, head : OriginRoots, tail : OriginKeys]
RecordFiles == [id : OriginIdentities, head : OriginKeys, tail : {"worker", "reviewer"}]
SignatureFiles == [id : OriginIdentities, head : SignedRecords, tail : OriginKeys]
Text(f) == [head |-> f.head, tail |-> f.tail]

NotRead == [state |-> "none"]
ReadStages == {"manifest", "pin", "record", "signature", "record again", "signature again"}

OriginTypeOK ==
    /\ originFile \in Manifests
    /\ rootAt \in [OriginRoots -> OriginRoots]
    /\ recordFiles \in [OriginRoots -> [record : RecordFiles, signature : SignatureFiles]]
    /\ reader.stage \in ReadStages \cup {"returned", "refused"}
    /\ reader.pass \in {1, 2} /\ reader.confirms \in BOOLEAN
    /\ published \subseteq [head : OriginRoots, tail : OriginKeys]
    /\ signed \subseteq [record : SignedRecords, key : OriginKeys]
    /\ originWrites \in 0 .. MaxOriginWrites

(* The roots are alike, and so are the keys: any manifest will do. *)
OriginInit ==
    /\ originFile = CHOOSE f \in Manifests : f.id = 0
    /\ rootAt = [r \in OriginRoots |-> r]
    /\ \E holds \in [OriginRoots -> OriginKeys] :
         LET first(r) == [head |-> holds[r], tail |-> "worker"] IN
         /\ recordFiles = [r \in OriginRoots |->
               [record |-> [id |-> 0, head |-> holds[r], tail |-> "worker"],
                signature |-> [id |-> 0, head |-> first(r), tail |-> holds[r]]]]
         /\ signed = {[record |-> first(r), key |-> holds[r]] : r \in OriginRoots}
    /\ published = {Text(originFile)}
    /\ \E confirms \in BOOLEAN :
         reader = [stage |-> "manifest", pass |-> 1, confirms |-> confirms, opened |-> NotRead,
                   once |-> NotRead, seen |-> NotRead, origin |-> NotRead, dir |-> NotRead,
                   record |-> NotRead, signature |-> NotRead]
    /\ originWrites = 0

-----------------------------------------------------------------------------
(* Reading a file *)

(* The file a stage reads: the records in the directory that was pinned. *)
FileOf(stage) ==
    IF stage = "manifest" THEN originFile
    ELSE IF stage \in {"record", "record again"} THEN recordFiles[reader.dir.at].record
    ELSE recordFiles[reader.dir.at].signature

SameFile(x, y) == x = y

(* readOnce opens the file, notes its identity and reads its first bytes ... *)
ReadHead ==
    /\ reader.stage \in ReadStages \ {"pin"} /\ reader.opened = NotRead /\ reader.seen = NotRead
    /\ reader' = [reader EXCEPT !.opened =
                    [state |-> "open", id |-> FileOf(reader.stage).id, head |-> FileOf(reader.stage).head]]
    /\ UNCHANGED writtenVars

(* ... then the rest, and the identity again.  readTwice does so twice, and the two
   reads must agree. *)
Agree(once, seen) == SameFile(once.id, seen.id) /\ Text(once) = Text(seen)

ReadTail ==
    LET f == FileOf(reader.stage)
        got == [state |-> "read", id |-> f.id, head |-> reader.opened.head, tail |-> f.tail]
    IN
    /\ reader.stage \in ReadStages \ {"pin"} /\ reader.opened # NotRead /\ reader.seen = NotRead
    /\ reader' =
          IF ~SameFile(reader.opened.id, f.id) \/ (reader.pass = 2 /\ ~Agree(reader.once, got))
          THEN [reader EXCEPT !.stage = "refused"]
          ELSE IF reader.pass = 1
          THEN [reader EXCEPT !.opened = NotRead, !.pass = 2, !.once = got]
          ELSE [reader EXCEPT !.opened = NotRead, !.seen = got]
    /\ UNCHANGED writtenVars

-----------------------------------------------------------------------------
(* Reading a record *)
Continues(stage) == [reader EXCEPT !.stage = stage, !.pass = 1, !.once = NotRead, !.seen = NotRead]

(* The manifest gives the directory of the records, which is looked at ... *)
ReadManifest ==
    /\ reader.stage = "manifest" /\ reader.seen # NotRead
    /\ LET origin == [state |-> "read", head |-> reader.seen.head, tail |-> reader.seen.tail] IN
       reader' = [Continues("pin") EXCEPT !.origin = origin,
                                          !.dir = [state |-> "seen", at |-> rootAt[origin.head]]]
    /\ UNCHANGED writtenVars

(* ... and opened, if it still is the same directory. *)
PinOpened ==
    /\ reader.stage = "pin"
    /\ reader' = IF rootAt[reader.origin.head] = reader.dir.at
                 THEN [Continues("record") EXCEPT !.dir.state = "open"]
                 ELSE [reader EXCEPT !.stage = "refused"]
    /\ UNCHANGED writtenVars

ReadRecord ==
    /\ reader.stage = "record" /\ reader.seen # NotRead
    /\ reader' = [Continues("signature") EXCEPT !.record = reader.seen]
    /\ UNCHANGED writtenVars

(* Mutant: the key of the origin made the signature, of whatever record. *)
BugVerifies == reader.seen.tail = reader.origin.tail

Verifies == reader.seen.head = Text(reader.record) /\ reader.seen.tail = reader.origin.tail

NamesItsOrigin == reader.record.head = reader.origin.tail

(* The signature is checked with the key of the origin; the record of a scheduler is
   returned when it names that key, the record of an actor is read again. *)
ReadSignature ==
    /\ reader.stage = "signature" /\ reader.seen # NotRead
    /\ reader' = IF ~Verifies \/ (~reader.confirms /\ ~NamesItsOrigin) THEN [reader EXCEPT !.stage = "refused"]
                 ELSE [Continues(IF reader.confirms THEN "record again" ELSE "returned")
                         EXCEPT !.signature = reader.seen]
    /\ UNCHANGED writtenVars

(* The confirmation of the record, and of its signature. *)
ConfirmRecord ==
    /\ reader.stage = "record again" /\ reader.seen # NotRead
    /\ reader' = IF Text(reader.seen) = Text(reader.record) THEN Continues("signature again")
                 ELSE [reader EXCEPT !.stage = "refused"]
    /\ UNCHANGED writtenVars

ConfirmSignature ==
    /\ reader.stage = "signature again" /\ reader.seen # NotRead
    /\ reader' = IF Text(reader.seen) = Text(reader.signature) /\ NamesItsOrigin THEN Continues("returned")
                 ELSE [reader EXCEPT !.stage = "refused"]
    /\ UNCHANGED writtenVars

-----------------------------------------------------------------------------
(* From outside: files are written in place, one at a time, and a directory takes
   the place of another. *)
Written == originWrites < MaxOriginWrites /\ originWrites' = originWrites + 1

Republish(r, k) ==
    /\ Written
    /\ originFile' = [id |-> originWrites + 1, head |-> r, tail |-> k]
    /\ published' = published \cup {[head |-> r, tail |-> k]}
    /\ UNCHANGED <<rootAt, recordFiles, reader, signed>>

WriteRecord(d, r) ==
    /\ Written
    /\ recordFiles' = [recordFiles EXCEPT ![d].record = [id |-> originWrites + 1, head |-> r.head, tail |-> r.tail]]
    /\ UNCHANGED <<originFile, rootAt, reader, published, signed>>

WriteSignature(d) ==
    LET r == Text(recordFiles[d].record) IN
    /\ Written
    /\ recordFiles' = [recordFiles EXCEPT ![d].signature = [id |-> originWrites + 1, head |-> r, tail |-> r.head]]
    /\ signed' = signed \cup {[record |-> r, key |-> r.head]}
    /\ UNCHANGED <<originFile, rootAt, reader, published>>

SwapRoot(r, d) ==
    /\ Written
    /\ rootAt' = [rootAt EXCEPT ![r] = d]
    /\ UNCHANGED <<originFile, recordFiles, reader, published, signed>>

OriginNext ==
    \/ ReadHead \/ ReadTail
    \/ ReadManifest \/ PinOpened \/ ReadRecord \/ ReadSignature \/ ConfirmRecord \/ ConfirmSignature
    \/ \E r \in OriginRoots, k \in OriginKeys : Republish(r, k)
    \/ \E d \in OriginRoots : WriteSignature(d) \/ \E r \in SignedRecords : WriteRecord(d, r)
    \/ \E r, d \in OriginRoots : SwapRoot(r, d)

OriginSpec == OriginInit /\ [][OriginNext]_originVars

-----------------------------------------------------------------------------
(* A record that is returned was signed, as it is, with the key it names, and the
   manifest has said, while it was being read, that this key signs the records of
   the directory the path of which was followed: never a root of one manifest with
   the key of another. *)
OriginIsOne ==
    reader.stage = "returned" =>
        /\ Text(reader.origin) \in published
        /\ [record |-> Text(reader.record), key |-> reader.origin.tail] \in signed
        /\ reader.record.head = reader.origin.tail

=============================================================================
