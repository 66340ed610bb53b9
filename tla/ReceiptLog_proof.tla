-------------------------- MODULE ReceiptLog_proof --------------------------
(***************************************************************************)
(* Proofs about ReceiptLog for every set of processes and documents, every *)
(* combination of faults and any number of them.                           *)
(***************************************************************************)
EXTENDS ReceiptLog, TLAPS

(* Whoever is inside a call holds the lock, and nobody else does.          *)
LockOwned == \A p \in Procs : lock = p <=> op[p] # "idle"

(* The receipt that a process is about to link still extends the tip and   *)
(* binds a key of its own.                                                 *)
DraftFits ==
    \A p \in Procs : op[p] \in {"admitted", "staged"} =>
        /\ draft[p] \in Receipt
        /\ draft[p].prev = Tip(entries)
        /\ Bound(draft[p].doc) = {}

(* After the link it is the last entry, and durable once entries/ is synced. *)
DraftLinked ==
    \A p \in Procs :
        /\ op[p] \in {"linked", "unlinked", "synced", "headStaged", "headReplaced"} =>
              /\ entries # <<>>
              /\ draft[p] = entries[Len(entries)]
        /\ op[p] \in {"synced", "headStaged", "headReplaced"} => synced = Len(entries)

IInv == TypeOK /\ LockOwned /\ LogIntact /\ DraftFits /\ DraftLinked /\ AckedIsDurable

Reply == [code : Codes, asked : Docs \cup {None}, receipt : Receipt \cup {None}]
-----------------------------------------------------------------------------
(* Tip of a log of receipts is a sequence of documents.                    *)
LEMMA TipType == ASSUME NEW log \in Seq(Receipt) PROVE Tip(log) \in Seq(Docs)
<1>1. CASE log = <<>>
  BY <1>1 DEF Tip
<1>2. CASE log # <<>>
  <2> DEFINE r == log[Len(log)]
  <2>1. r \in Receipt
    BY <1>2
  <2>2. r.prev \in Seq(Docs) /\ r.doc \in Docs
    BY <2>1 DEF Receipt
  <2>3. Append(r.prev, r.doc) \in Seq(Docs)
    BY <2>2
  <2> QED BY <1>2, <2>3 DEF Tip, Sha
<1> QED BY <1>1, <1>2

(* Linking a receipt that extends the tip and binds a new key keeps the    *)
(* chain and the identities; equal ids would mean equal keys.              *)
LEMMA ExtendIntact ==
  ASSUME NEW log \in Seq(Receipt), NEW r \in Receipt,
         Links(log), Distinct(log), r.prev = Tip(log),
         \A i \in 1..Len(log) :
            log[i].doc.idempotency_key # r.doc.idempotency_key
  PROVE  Links(Append(log, r)) /\ Distinct(Append(log, r))
<1> DEFINE new == Append(log, r)
<1>1. /\ new \in Seq(Receipt) /\ Len(new) = Len(log) + 1
      /\ new[Len(log) + 1] = r
      /\ \A i \in 1..Len(log) : new[i] = log[i]
  OBVIOUS
<1> HIDE DEF new
<1>2. Links(new)
  <2> SUFFICES ASSUME NEW i \in 1..Len(new)
               PROVE  new[i].prev = IF i = 1 THEN <<>> ELSE Sha(new[i - 1])
    BY DEF Links
  <2>1. CASE i \in 1..Len(log)
    BY <1>1, <2>1 DEF Links
  <2>2. CASE i = Len(log) + 1
    BY <1>1, <2>2 DEF Tip
  <2> QED BY <1>1, <2>1, <2>2
<1>3. \A i \in 1..Len(log) : log[i].doc.receipt_id # r.doc.receipt_id
  <2> TAKE i \in 1..Len(log)
  <2>1. log[i] \in Receipt
    OBVIOUS
  <2>2. log[i].doc \in Docs /\ r.doc \in Docs
    BY <2>1 DEF Receipt
  <2> QED BY <2>2, DocsAssumption
<1>4. Distinct(new)
  BY <1>1, <1>3 DEF Distinct
<1> QED BY <1>2, <1>4 DEF new

(* A prefix of an intact log is intact.                                    *)
LEMMA PrefixIntact ==
  ASSUME NEW log \in Seq(Receipt), NEW n \in 0..Len(log),
         Links(log), Distinct(log)
  PROVE  /\ SubSeq(log, 1, n) \in Seq(Receipt)
         /\ Len(SubSeq(log, 1, n)) = n
         /\ \A i \in 1..n : SubSeq(log, 1, n)[i] = log[i]
         /\ Links(SubSeq(log, 1, n)) /\ Distinct(SubSeq(log, 1, n))
<1> DEFINE pre == SubSeq(log, 1, n)
<1>1. /\ pre \in Seq(Receipt) /\ Len(pre) = n
      /\ \A i \in 1..n : pre[i] = log[i]
  OBVIOUS
<1> HIDE DEF pre
<1>2. Links(pre)
  BY <1>1 DEF Links
<1>3. Distinct(pre)
  BY <1>1 DEF Distinct
<1> QED BY <1>1, <1>2, <1>3 DEF pre
-----------------------------------------------------------------------------
(* A call that only reads keeps the invariant, whatever it answers.        *)
LEMMA AnswersKeep ==
  ASSUME IInv, NEW p \in Procs, NEW a \in Reply,
         Answers(p, a), known' \in [Procs -> Seq(Docs)]
  PROVE  IInv'
<1> USE DEF Answers, disk, heads
<1>1. TypeOK'
  BY DEF IInv, TypeOK, Reply
<1>2. /\ LockOwned' /\ LogIntact' /\ DraftFits' /\ DraftLinked' /\ AckedIsDurable'
  BY DEF IInv, LockOwned, LogIntact, DraftFits, DraftLinked, AckedIsDurable, Bound
<1> QED BY <1>1, <1>2 DEF IInv

(* So does the end of a call that held the lock, with or without success,  *)
(* as long as what it acknowledges is durable.                             *)
LEMMA ReturnsKeep ==
  ASSUME IInv, NEW p \in Procs, NEW a \in Reply, op[p] # "idle", Returns(p, a),
         UNCHANGED <<entries, synced>>, dirty' \in BOOLEAN, stray' \in BOOLEAN,
         head' \in HeadFile, diskHead' \in HeadFile, faults' \in Nat,
         acked' \subseteq Receipt,
         \A r \in acked' : \E i \in 1..synced : entries[i] = r
  PROVE  IInv'
<1> USE DEF Returns
<1>1. TypeOK'
  BY DEF IInv, TypeOK, Reply, Ops
<1>2. LockOwned'
  BY NoneAssumption DEF IInv, LockOwned, TypeOK
<1>3. LogIntact' /\ AckedIsDurable'
  BY DEF IInv, LogIntact, AckedIsDurable
<1>4. DraftFits' /\ DraftLinked'
  BY DEF IInv, DraftFits, DraftLinked, TypeOK, Bound
<1> QED BY <1>1, <1>2, <1>3, <1>4 DEF IInv

(* What find and commit may answer.                                        *)
LEMMA FindReply ==
  ASSUME IInv, NEW d \in Docs PROVE FindAnswer(d) \in Reply
<1>1. Snapshot \in ChainErrors \cup {"OK"}
  BY DEF Snapshot, Scan, HeadCheck, ChainErrors
<1>2. \A i \in Bound(d) : entries[i] \in Receipt
  BY DEF IInv, TypeOK, Bound
<1>3. ASSUME Bound(d) # {} PROVE (CHOOSE i \in Bound(d) : TRUE) \in Bound(d)
  BY <1>3
<1> QED BY <1>1, <1>2, <1>3, Zenon
        DEF FindAnswer, Answer, Reply, Codes

LEMMA CommitReply ==
  ASSUME NEW r, NEW late \in BOOLEAN, NEW fits \in BOOLEAN
  PROVE  Admission(r, late, fits) \in Codes \cup {"ADMITTED"}
<1>1. Snapshot \in ChainErrors \cup {"OK"}
  BY DEF Snapshot, Scan, HeadCheck, ChainErrors
<1> QED BY <1>1 DEF Admission, Codes

LEMMA ProposalType ==
  ASSUME IInv, NEW p \in Procs, NEW d \in Docs PROVE Proposal(p, d) \in Receipt
  BY DEF IInv, TypeOK, Proposal, Receipt
-----------------------------------------------------------------------------
LEMMA InitInv == Init => IInv
<1> SUFFICES ASSUME Init PROVE IInv
  OBVIOUS
<1>1. TypeOK
  <2>1. entries \in Seq(Receipt) /\ synced \in 0..Len(entries)
    BY DEF Init
  <2>2. head \in HeadFile /\ diskHead \in HeadFile
    BY DEF Init, NoHead, HeadFile
  <2>3. known \in [Procs -> Seq(Docs)] /\ op \in [Procs -> Ops]
    BY DEF Init, Ops
  <2>4. ret \in [Procs -> [code : Codes, asked : Docs \cup {None},
                          receipt : Receipt \cup {None}]]
    BY DEF Init, Answer, Codes
  <2> QED BY <2>1, <2>2, <2>3, <2>4 DEF Init, TypeOK
<1>2. LockOwned /\ DraftFits /\ DraftLinked /\ AckedIsDurable
  BY NoneAssumption DEF Init, LockOwned, DraftFits, DraftLinked, AckedIsDurable
<1>3. LogIntact
  BY DEF Init, LogIntact, Links, Distinct
<1> QED BY <1>1, <1>2, <1>3 DEF IInv

(* Calls that find the lock free.                                          *)
LEMMA CallInv == ASSUME IInv, NEW p \in Procs, Call(p) PROVE IInv'
<1>1. CASE \E d \in Docs : Find(p, d)
  <2> PICK d \in Docs : Find(p, d)
    BY <1>1
  <2>1. known' \in [Procs -> Seq(Docs)]
    BY DEF Find, IInv, TypeOK
  <2> QED BY <2>1, FindReply, AnswersKeep DEF Find
<1>2. ASSUME NEW d \in Docs, NEW late \in BOOLEAN, NEW fits \in BOOLEAN,
             CommitAnswered(p, d, late, fits)
      PROVE  IInv'
  <2> DEFINE verdict == Admission(Proposal(p, d), late, fits)
             a == Answer(verdict, d, IF verdict = "REPLAYED" THEN Proposal(p, d) ELSE None)
  <2>1. verdict \in Codes
    BY <1>2, CommitReply DEF CommitAnswered
  <2>2. a \in Reply
    BY <2>1, ProposalType DEF Answer, Reply
  <2>3. Answers(p, a) /\ known' \in [Procs -> Seq(Docs)]
    BY <1>2 DEF CommitAnswered, IInv, TypeOK
  <2> QED BY <2>2, <2>3, AnswersKeep
<1>3. ASSUME NEW d \in Docs, NEW late \in BOOLEAN, NEW fits \in BOOLEAN,
             CommitAdmitted(p, d, late, fits)
      PROVE  IInv'
  <2> DEFINE r == Proposal(p, d)
  <2> USE <1>3 DEF CommitAdmitted, disk, heads
  <2>1. r \in Receipt
    BY ProposalType
  <2>2. r.prev = Tip(entries) /\ Bound(r.doc) = {}
    <3>1. Admission(r, late, fits) = "ADMITTED"
      OBVIOUS
    <3>2. Snapshot = "OK"
      BY <3>1 DEF Admission, Snapshot, Scan, HeadCheck
    <3> QED BY <3>1, <3>2 DEF Admission
  <2>3. TypeOK'
    BY <2>1 DEF IInv, TypeOK, Ops
  <2>4. LockOwned'
    BY NoneAssumption DEF IInv, TypeOK, LockOwned, Free
  <2>5. LogIntact' /\ AckedIsDurable'
    BY DEF IInv, LogIntact, AckedIsDurable
  <2>6. DraftFits'
    BY <2>1, <2>2 DEF IInv, TypeOK, DraftFits, Bound
  <2>7. DraftLinked'
    BY DEF IInv, TypeOK, DraftLinked
  <2> QED BY <2>3, <2>4, <2>5, <2>6, <2>7 DEF IInv
<1>4. CASE Verify(p)
  <2> DEFINE a == Answer(IF Snapshot = "OK" THEN "VERIFIED" ELSE Snapshot, None, None)
  <2>1. Snapshot \in ChainErrors \cup {"OK"}
    BY DEF Snapshot, Scan, HeadCheck, ChainErrors
  <2>2. a \in Reply
    BY <2>1 DEF Answer, Reply, Codes
  <2>3. known' \in [Procs -> Seq(Docs)]
    BY <1>4, TipType DEF Verify, IInv, TypeOK
  <2> QED BY <1>4, <2>2, <2>3, AnswersKeep DEF Verify
<1>5. CASE Recover(p)
  <2>1. CASE Scan = "OK" /\ ~HeadMatches
    <3> USE <1>5, <2>1 DEF Recover, disk, heads
    <3>1. TypeOK'
      BY DEF IInv, TypeOK, Ops
    <3>2. LockOwned'
      BY NoneAssumption DEF IInv, TypeOK, LockOwned, Free
    <3>3. LogIntact' /\ AckedIsDurable' /\ DraftFits' /\ DraftLinked'
      BY DEF IInv, TypeOK, LogIntact, AckedIsDurable, DraftFits, DraftLinked, Bound
    <3> QED BY <3>1, <3>2, <3>3 DEF IInv
  <2>2. CASE Scan # "OK" \/ HeadMatches
    <3> DEFINE a == Answer(IF Scan = "OK" THEN "VERIFIED" ELSE Scan, None, None)
    <3>1. Scan \in ChainErrors \cup {"OK"}
      BY DEF Scan, ChainErrors
    <3>2. a \in Reply
      BY <3>1 DEF Answer, Reply, Codes
    <3>3. known' \in [Procs -> Seq(Docs)]
      BY <1>5, <2>2, TipType DEF Recover, IInv, TypeOK
    <3> QED BY <1>5, <2>2, <3>2, <3>3, AnswersKeep DEF Recover
  <2> QED BY <1>5, <2>1, <2>2
<1> QED BY <1>1, <1>2, <1>3, <1>4, <1>5 DEF Call, Commit

LEMMA DraftLogged ==
  ASSUME IInv, NEW p \in Procs,
         op[p] \in {"linked", "unlinked", "synced", "headStaged", "headReplaced"}
  PROVE  /\ draft[p] \in Receipt /\ draft[p].doc \in Docs
         /\ entries # <<>> /\ entries[Len(entries)] = draft[p]
         /\ op[p] \in {"synced", "headStaged", "headReplaced"} => synced = Len(entries)
<1>1. /\ entries # <<>> /\ entries[Len(entries)] = draft[p]
      /\ op[p] \in {"synced", "headStaged", "headReplaced"} => synced = Len(entries)
  BY DEF IInv, DraftLinked
<1>2. entries[Len(entries)] \in Receipt
  BY <1>1 DEF IInv, TypeOK
<1> QED BY <1>1, <1>2 DEF Receipt

(* Every file-system step of a call that holds the lock.                   *)
LEMMA ProceedInv == ASSUME IInv, NEW p \in Procs, Proceed(p) PROVE IInv'
<1> USE DEF Advance
<1>p. lock = p /\ \A q \in Procs : q # p => op[q] = "idle"
  BY DEF IInv, TypeOK, LockOwned, Proceed, Stage, LinkEntry, UnlinkTemp, SyncEntries,
         StageHead, ReplaceHead, SyncHead
<1>1. CASE Stage(p)
  <2> USE <1>1 DEF Stage
  <2>1. TypeOK'
    BY DEF IInv, TypeOK, Ops, heads
  <2>2. LockOwned' /\ LogIntact' /\ AckedIsDurable'
    BY DEF IInv, TypeOK, LockOwned, LogIntact, AckedIsDurable
  <2>3. DraftFits' /\ DraftLinked'
    BY DEF IInv, TypeOK, DraftFits, DraftLinked, Bound
  <2> QED BY <2>1, <2>2, <2>3 DEF IInv
<1>2. CASE LinkEntry(p)
  <2> USE <1>2 DEF LinkEntry
  <2> DEFINE r == draft[p]
  <2>1. /\ r \in Receipt /\ r.prev = Tip(entries)
        /\ \A i \in 1..Len(entries) :
              entries[i].doc.idempotency_key # r.doc.idempotency_key
    BY DEF IInv, DraftFits, Bound
  <2>2. /\ entries \in Seq(Receipt) /\ entries' \in Seq(Receipt)
        /\ Len(entries') = Len(entries) + 1
        /\ entries'[Len(entries')] = r
        /\ \A i \in 1..Len(entries) : entries'[i] = entries[i]
        /\ synced' = synced /\ synced \in 0..Len(entries)
    BY <2>1 DEF IInv, TypeOK
  <2>3. TypeOK'
    BY <2>2 DEF IInv, TypeOK, Ops, heads
  <2>4. LockOwned'
    BY DEF IInv, TypeOK, LockOwned
  <2>5. LogIntact'
    BY <2>1, <2>2, ExtendIntact DEF IInv, LogIntact
  <2>6. DraftFits'
    BY <1>p DEF IInv, TypeOK, DraftFits
  <2>7. DraftLinked'
    <3>1. entries' # <<>> /\ draft' = draft
      BY <2>2
    <3>2. op'[p] = "linked" /\ \A q \in Procs : q # p => op'[q] = "idle"
      BY <1>p DEF IInv, TypeOK
    <3> QED BY <2>2, <3>1, <3>2 DEF DraftLinked
  <2>8. AckedIsDurable'
    BY <2>2 DEF IInv, AckedIsDurable
  <2> QED BY <2>3, <2>4, <2>5, <2>6, <2>7, <2>8 DEF IInv
<1>3. CASE UnlinkTemp(p)
  <2> USE <1>3 DEF UnlinkTemp
  <2>1. TypeOK'
    BY DEF IInv, TypeOK, Ops, heads
  <2>2. LockOwned' /\ LogIntact' /\ AckedIsDurable'
    BY DEF IInv, TypeOK, LockOwned, LogIntact, AckedIsDurable
  <2>3. DraftFits' /\ DraftLinked'
    BY DEF IInv, TypeOK, DraftFits, DraftLinked, Bound
  <2> QED BY <2>1, <2>2, <2>3 DEF IInv
<1>4. CASE SyncEntries(p)
  <2> USE <1>4 DEF SyncEntries
  <2>1. synced' \in 0..Len(entries) /\ synced <= synced'
    BY DEF IInv, TypeOK
  <2>2. TypeOK'
    BY <2>1 DEF IInv, TypeOK, Ops, heads
  <2>3. LockOwned' /\ LogIntact'
    BY DEF IInv, TypeOK, LockOwned, LogIntact
  <2>4. AckedIsDurable'
    BY <2>1 DEF IInv, TypeOK, AckedIsDurable
  <2>5. DraftFits' /\ DraftLinked'
    BY <1>p DEF IInv, TypeOK, DraftFits, DraftLinked, Bound
  <2> QED BY <2>2, <2>3, <2>4, <2>5 DEF IInv
<1>5. CASE StageHead(p)
  <2> USE <1>5 DEF StageHead, disk
  <2>1. TypeOK'
    BY DEF IInv, TypeOK, Ops
  <2>2. LockOwned' /\ LogIntact' /\ AckedIsDurable'
    BY DEF IInv, TypeOK, LockOwned, LogIntact, AckedIsDurable
  <2>3. DraftFits' /\ DraftLinked'
    BY <1>p DEF IInv, TypeOK, DraftFits, DraftLinked, Bound
  <2> QED BY <2>1, <2>2, <2>3 DEF IInv
<1>6. CASE ReplaceHead(p)
  <2> USE <1>6 DEF ReplaceHead, disk
  <2>1. head' \in HeadFile
    BY TipType DEF IInv, TypeOK, HeadOf, HeadFile
  <2>2. TypeOK'
    BY <2>1 DEF IInv, TypeOK, Ops
  <2>3. LockOwned' /\ LogIntact' /\ AckedIsDurable'
    BY DEF IInv, TypeOK, LockOwned, LogIntact, AckedIsDurable
  <2>4. DraftFits' /\ DraftLinked'
    BY <1>p DEF IInv, TypeOK, DraftFits, DraftLinked, Bound
  <2> QED BY <2>2, <2>3, <2>4 DEF IInv
<1>7. CASE SyncHead(p)
  <2> USE <1>7 DEF SyncHead, disk
  <2>1. CASE op[p] = "headReplaced"
    <3> DEFINE a == Answer("COMMITTED", draft[p].doc, draft[p])
    <3>1. /\ draft[p] \in Receipt /\ draft[p].doc \in Docs
          /\ entries # <<>> /\ synced = Len(entries)
          /\ entries[Len(entries)] = draft[p]
      BY <2>1, DraftLogged
    <3>2. a \in Reply
      BY <3>1 DEF Answer, Reply, Codes
    <3>3. acked' = acked \cup {draft[p]} /\ acked' \subseteq Receipt
      BY <2>1, <3>1 DEF IInv, TypeOK
    <3>4. \A r \in acked' : \E i \in 1..synced : entries[i] = r
      BY <3>1, <3>3 DEF IInv, TypeOK, AckedIsDurable
    <3>5. head' \in HeadFile /\ diskHead' \in HeadFile /\ faults' \in Nat
          /\ dirty' \in BOOLEAN /\ stray' \in BOOLEAN
      BY DEF IInv, TypeOK
    <3>6. Returns(p, a)
      BY <2>1
    <3> QED BY <2>1, <3>2, <3>3, <3>4, <3>5, <3>6, ReturnsKeep
  <2>2. CASE op[p] # "headReplaced"
    <3> DEFINE a == Answer("RECOVERED", None, None)
    <3>1. a \in Reply
      BY DEF Answer, Reply, Codes
    <3>2. acked' = acked /\ acked \subseteq Receipt
          /\ \A r \in acked : \E i \in 1..synced : entries[i] = r
      BY <2>2 DEF IInv, TypeOK, AckedIsDurable
    <3>3. head' \in HeadFile /\ diskHead' \in HeadFile /\ faults' \in Nat
          /\ dirty' \in BOOLEAN /\ stray' \in BOOLEAN
      BY DEF IInv, TypeOK
    <3>4. Returns(p, a)
      BY <2>2
    <3> QED BY <3>1, <3>2, <3>3, <3>4, ReturnsKeep
  <2> QED BY <2>1, <2>2
<1> QED BY <1>1, <1>2, <1>3, <1>4, <1>5, <1>6, <1>7 DEF Proceed

(* A call that fails ends with nothing acknowledged.                       *)
LEMMA FailInv == ASSUME IInv, NEW p \in Procs, Fail(p) PROVE IInv'
<1>a. faults' \in Nat
  <2>1. faults' = faults + 1
    BY DEF Fail, StageFails, PublishFails, ConfirmFails, HeadFails, Fault
  <2> QED BY <2>1 DEF IInv, TypeOK
<1>b. /\ \A r \in acked : \E i \in 1..synced : entries[i] = r
      /\ acked \subseteq Receipt /\ stray \in BOOLEAN /\ dirty \in BOOLEAN
      /\ head \in HeadFile /\ diskHead \in HeadFile
  BY DEF IInv, TypeOK, AckedIsDurable
<1>c. ASSUME NEW code \in Codes, NEW asked \in Docs \cup {None}
      PROVE  Answer(code, asked, None) \in Reply
  BY DEF Answer, Reply
<1>1. CASE StageFails(p)
  <2>1. draft[p].doc \in Docs
    BY <1>1 DEF StageFails, IInv, DraftFits, Receipt
  <2>2. Answer("RECEIPT_WRITE_FAILED", draft[p].doc, None) \in Reply
    BY <1>c, <2>1 DEF Codes
  <2>3. stray' \in BOOLEAN /\ op[p] # "idle"
    BY <1>1 DEF StageFails
  <2> QED BY <1>1, <1>a, <1>b, <2>2, <2>3, ReturnsKeep DEF StageFails, heads
<1>2. CASE PublishFails(p)
  <2>1. draft[p].doc \in Docs
    BY <1>2, DraftLogged DEF PublishFails
  <2>2. Answer("OSError", draft[p].doc, None) \in Reply
    BY <1>c, <2>1 DEF Codes
  <2>3. stray' \in BOOLEAN /\ op[p] # "idle"
    BY <1>2 DEF PublishFails
  <2> QED BY <1>2, <1>a, <1>b, <2>2, <2>3, ReturnsKeep DEF PublishFails, heads
<1>3. CASE ConfirmFails(p)
  <2>1. draft[p].doc \in Docs
    BY <1>3, DraftLogged DEF ConfirmFails
  <2>2. PICK code \in {"RECEIPT_WRITE_FAILED", "RECEIPT_FSYNC_FAILED"} :
             Returns(p, Answer(code, draft[p].doc, None))
    BY <1>3 DEF ConfirmFails
  <2>3. Answer(code, draft[p].doc, None) \in Reply
    BY <1>c, <2>1 DEF Codes
  <2>4. op[p] # "idle"
    BY <1>3 DEF ConfirmFails
  <2> QED BY <1>3, <1>a, <1>b, <2>2, <2>3, <2>4, ReturnsKeep DEF ConfirmFails, disk, heads
<1>4. CASE HeadFails(p)
  <2>1. CASE op[p] \in {"synced", "headStaged", "headReplaced"}
    <3>1. draft[p].doc \in Docs
      BY <2>1, DraftLogged
    <3>2. Answer("RECEIPT_HEAD_WRITE_FAILED", draft[p].doc, None) \in Reply
      BY <1>c, <3>1 DEF Codes
    <3> QED BY <1>4, <1>a, <1>b, <2>1, <3>2, ReturnsKeep DEF HeadFails, disk, heads
  <2>2. CASE op[p] \notin {"synced", "headStaged", "headReplaced"}
    <3>1. PICK code \in RecoveryErrors : Returns(p, Answer(code, None, None))
      BY <1>4, <2>2 DEF HeadFails
    <3>2. code \in Codes
      BY DEF RecoveryErrors, Codes
    <3>3. Answer(code, None, None) \in Reply
      BY <1>c, <3>2
    <3>4. op[p] # "idle"
      BY <1>4, <2>2 DEF HeadFails
    <3> QED BY <1>4, <1>a, <1>b, <3>1, <3>3, <3>4, ReturnsKeep DEF HeadFails, disk, heads
  <2> QED BY <2>1, <2>2
<1> QED BY <1>1, <1>2, <1>3, <1>4 DEF Fail

LEMMA KillInv == ASSUME IInv, NEW p \in Procs, Kill(p) PROVE IInv'
<1> USE DEF Kill, disk, heads
<1>1. TypeOK'
  <2>1. ret' \in [Procs -> [code : Codes, asked : Docs \cup {None},
                           receipt : Receipt \cup {None}]]
    BY DEF IInv, TypeOK, Answer, Codes
  <2>2. known' \in [Procs -> Seq(Docs)] /\ op' \in [Procs -> Ops]
        /\ draft' \in [Procs -> Receipt \cup {None}] /\ faults' \in Nat
    BY DEF IInv, TypeOK, Ops, Fault
  <2> QED BY <2>1, <2>2 DEF IInv, TypeOK
<1>2. LockOwned'
  BY NoneAssumption DEF IInv, TypeOK, LockOwned
<1>3. LogIntact' /\ AckedIsDurable'
  BY DEF IInv, LogIntact, AckedIsDurable
<1>4. DraftFits' /\ DraftLinked'
  BY DEF IInv, TypeOK, DraftFits, DraftLinked, Bound
<1> QED BY <1>1, <1>2, <1>3, <1>4 DEF IInv

(* A power loss cuts the log back to a prefix that keeps what was synced.  *)
LEMMA PowerLossInv == IInv /\ PowerLoss => IInv'
<1> SUFFICES ASSUME IInv, PowerLoss PROVE IInv'
  OBVIOUS
<1>1. PICK kept \in synced..Len(entries) :
         entries' = SubSeq(entries, 1, kept) /\ synced' = kept
  BY DEF PowerLoss
<1>2. /\ kept \in 0..Len(entries) /\ synced <= kept /\ synced \in Nat
      /\ entries' \in Seq(Receipt) /\ Len(entries') = kept
      /\ \A i \in 1..kept : entries'[i] = entries[i]
      /\ Links(entries') /\ Distinct(entries')
  BY <1>1, PrefixIntact DEF IInv, TypeOK, LogIntact
<1>3. TypeOK'
  <2>1. ret' \in [Procs -> [code : Codes, asked : Docs \cup {None},
                           receipt : Receipt \cup {None}]]
    BY DEF PowerLoss, Answer, Codes
  <2>2. known' \in [Procs -> Seq(Docs)] /\ op' \in [Procs -> Ops]
        /\ draft' \in [Procs -> Receipt \cup {None}] /\ faults' \in Nat
    BY DEF PowerLoss, IInv, TypeOK, Ops, Fault
  <2>3. /\ head' \in HeadFile /\ diskHead' \in HeadFile
        /\ stray' \in BOOLEAN /\ dirty' \in BOOLEAN
        /\ lock' \in Procs \cup {None} /\ acked' \subseteq Receipt
    BY DEF PowerLoss, IInv, TypeOK
  <2>4. synced' \in 0..Len(entries')
    BY <1>1, <1>2
  <2> QED BY <1>2, <2>1, <2>2, <2>3, <2>4 DEF TypeOK
<1>4. LockOwned' /\ DraftFits' /\ DraftLinked'
  BY NoneAssumption DEF PowerLoss, LockOwned, DraftFits, DraftLinked
<1>5. LogIntact'
  BY <1>2 DEF LogIntact
<1>6. AckedIsDurable'
  BY <1>1, <1>2 DEF PowerLoss, IInv, AckedIsDurable
<1> QED BY <1>3, <1>4, <1>5, <1>6 DEF IInv
-----------------------------------------------------------------------------
LEMMA StepInv == IInv /\ [Next]_vars => IInv'
<1> SUFFICES ASSUME IInv, [Next]_vars PROVE IInv'
  OBVIOUS
<1>1. ASSUME NEW p \in Procs, Call(p) \/ Proceed(p) \/ Fail(p) \/ Kill(p)
      PROVE  IInv'
  BY <1>1, CallInv, ProceedInv, FailInv, KillInv
<1>2. CASE PowerLoss
  BY <1>2, PowerLossInv
<1>3. CASE UNCHANGED vars
  BY <1>3 DEF vars, disk, heads, calls, IInv, TypeOK, LockOwned, LogIntact, DraftFits,
              DraftLinked, AckedIsDurable, Bound
<1> QED BY <1>1, <1>2, <1>3 DEF Next

LEMMA Invariance == Spec => []IInv
<1>1. Init => IInv
  BY InitInv
<1>2. IInv /\ [Next]_vars => IInv'
  BY StepInv
<1> QED BY <1>1, <1>2, PTL DEF Spec

(* Every variable keeps its type.                                          *)
THEOREM TypeCorrect == Spec => []TypeOK
<1>1. IInv => TypeOK
  BY DEF IInv
<1> QED BY <1>1, Invariance, PTL

(* No interleaving of callers, no fault and no number of faults leaves a   *)
(* chain of entries that _scan_entries rejects.                            *)
THEOREM LogStaysIntact == Spec => []LogIntact
<1>1. IInv => LogIntact
  BY DEF IInv
<1> QED BY <1>1, Invariance, PTL

(* What commit returned for stays on disk through every kill, failure and  *)
(* power loss.                                                             *)
THEOREM AckedStaysDurable == Spec => []AckedIsDurable
<1>1. IInv => AckedIsDurable
  BY DEF IInv
<1> QED BY <1>1, Invariance, PTL

(* No step of any call or fault touches an entry that an fsync covered.    *)
THEOREM DurableNeverRewritten == Spec => DurableAppendOnly
<1> DEFINE Kept == \A i \in 1..synced : i <= Len(entries') /\ entries'[i] = entries[i]
<1>1. ASSUME IInv, [Next]_vars PROVE Kept
  <2>1. entries \in Seq(Receipt) /\ synced \in 0..Len(entries)
    BY <1>1 DEF IInv, TypeOK
  <2>2. CASE entries' = entries
    BY <2>1, <2>2
  <2>3. ASSUME NEW p \in Procs, LinkEntry(p) PROVE Kept
    <3>1. draft[p] \in Receipt
      BY <1>1, <2>3 DEF LinkEntry, Advance, IInv, DraftFits
    <3>2. entries' = Append(entries, draft[p])
      BY <2>3 DEF LinkEntry
    <3> QED BY <2>1, <3>1, <3>2
  <2>4. CASE PowerLoss
    <3>1. PICK kept \in synced..Len(entries) : entries' = SubSeq(entries, 1, kept)
      BY <2>4 DEF PowerLoss
    <3>2. Len(entries') = kept /\ \A i \in 1..kept : entries'[i] = entries[i]
      BY <1>1, <2>1, <3>1, PrefixIntact DEF IInv, LogIntact
    <3> QED BY <2>1, <3>1, <3>2
  <2>5. ASSUME NEW p \in Procs, Proceed(p), ~LinkEntry(p) PROVE entries' = entries
    BY <2>5 DEF Proceed, Stage, UnlinkTemp, SyncEntries, StageHead, ReplaceHead,
                SyncHead, disk
  <2>6. ASSUME NEW p \in Procs, Call(p) PROVE entries' = entries
    BY <2>6 DEF Call, Find, Verify, Recover, Commit, CommitAnswered, CommitAdmitted,
                Answers, disk
  <2>7. ASSUME NEW p \in Procs, Fail(p) \/ Kill(p) PROVE entries' = entries
    BY <2>7 DEF Fail, StageFails, PublishFails, ConfirmFails, HeadFails, Kill, disk
  <2>8. CASE UNCHANGED vars
    BY <2>2, <2>8 DEF vars, disk
  <2> QED BY <1>1, <2>2, <2>3, <2>4, <2>5, <2>6, <2>7, <2>8 DEF Next
<1>2. ASSUME IInv, [Next]_vars PROVE [Kept]_vars
  BY <1>1, <1>2
<1> QED BY <1>2, Invariance, PTL DEF Spec, DurableAppendOnly

-----------------------------------------------------------------------------
(* HEAD and its readers.  Which steps change the entries or HEAD.          *)
LEMMA EntriesSteps ==
  ASSUME NEW p \in Procs, Call(p) \/ Proceed(p) \/ Fail(p) \/ Kill(p)
  PROVE  /\ UNCHANGED entries \/ LinkEntry(p)
         /\ UNCHANGED head \/ ReplaceHead(p)
<1>1. CASE Proceed(p)
  BY <1>1 DEF Proceed, Stage, LinkEntry, UnlinkTemp, SyncEntries, StageHead, ReplaceHead,
              SyncHead, disk, heads
<1>2. CASE Call(p)
  BY <1>2 DEF Call, Find, Verify, Recover, Commit, CommitAnswered, CommitAdmitted, Answers,
              disk, heads
<1>3. CASE Fail(p) \/ Kill(p)
  BY <1>3 DEF Fail, StageFails, PublishFails, ConfirmFails, HeadFails, Kill, disk, heads
<1> QED
  BY <1>1, <1>2, <1>3

(* A commit is admitted by a scan that compared HEAD with the entries, and *)
(* nothing changes either before its own link.                             *)
HeadFollows ==
    /\ HeadTrails
    /\ \A p \in Procs : op[p] \in {"admitted", "staged"} => HeadMatches

LEMMA AdmittedAfterScan ==
  ASSUME NEW p \in Procs, Call(p), NEW q \in Procs, op'[q] # op[q], op \in [Procs -> Ops],
         op'[q] \in {"admitted", "staged"}
  PROVE  HeadMatches
<1>1. ASSUME NEW d \in Docs, NEW late \in BOOLEAN, NEW fits \in BOOLEAN,
             CommitAdmitted(p, d, late, fits)
      PROVE  HeadMatches
  <2>1. Snapshot = "OK"
    BY <1>1 DEF CommitAdmitted, Admission, Snapshot, Scan, HeadCheck
  <2> QED
    BY <2>1 DEF Snapshot, HeadCheck
<1>2. CASE Recover(p)
  BY <1>2 DEF Recover, Answers
<1> QED
  BY <1>1, <1>2 DEF Call, Find, Verify, Commit, CommitAnswered, Answers

LEMMA HeadFollowsStep ==
  ASSUME IInv, HeadFollows, [Next]_vars, "power" \notin Faults
  PROVE  HeadFollows'
<1>1. CASE UNCHANGED vars
  BY <1>1 DEF vars, disk, heads, calls, HeadFollows, HeadTrails, HeadMatches
<1>2. ~PowerLoss
  BY DEF PowerLoss, Fault
<1>3. ASSUME NEW p \in Procs, Call(p) \/ Proceed(p) \/ Fail(p) \/ Kill(p)
      PROVE  HeadFollows'
  <2>1. CASE LinkEntry(p)
    <3>1. /\ entries' = Append(entries, draft[p]) /\ head' = head /\ op[p] = "staged"
          /\ op' = [op EXCEPT ![p] = "linked"]
      BY <2>1 DEF LinkEntry, Advance, heads
    <3>2. draft[p] \in Receipt /\ entries \in Seq(Receipt) /\ op \in [Procs -> Ops]
      BY <3>1 DEF IInv, DraftFits, TypeOK
    <3>3. SubSeq(entries', 1, Len(entries') - 1) = entries /\ entries' # <<>>
      BY <3>1, <3>2
    <3>4. head = HeadOf(entries)
      BY <3>1 DEF HeadFollows, HeadMatches
    <3>5. HeadTrails'
      BY <3>1, <3>3, <3>4 DEF HeadTrails
    <3>6. \A q \in Procs : op'[q] \notin {"admitted", "staged"}
      BY <3>1, <3>2, NoneAssumption DEF IInv, LockOwned
    <3> QED
      BY <3>5, <3>6 DEF HeadFollows
  <2>2. CASE ReplaceHead(p)
    BY <2>2 DEF ReplaceHead, disk, HeadFollows, HeadTrails, HeadMatches
  <2>3. CASE UNCHANGED <<entries, head>>
    <3>1. HeadTrails' /\ HeadMatches' = HeadMatches
      BY <2>3 DEF HeadFollows, HeadTrails, HeadMatches
    <3>2. ASSUME NEW q \in Procs, op'[q] \in {"admitted", "staged"}
          PROVE  HeadMatches
      <4>1. CASE op[q] \in {"admitted", "staged"}
        BY <4>1 DEF HeadFollows
      <4>2. CASE Call(p)
        BY <3>2, <4>1, <4>2, AdmittedAfterScan DEF IInv, TypeOK
      <4>3. CASE Proceed(p) \/ Fail(p) \/ Kill(p)
        BY <3>2, <4>1, <4>3
        DEF Proceed, Stage, LinkEntry, UnlinkTemp, SyncEntries, StageHead, ReplaceHead,
            SyncHead, Advance, Returns, Fail, StageFails, PublishFails, ConfirmFails,
            HeadFails, Kill, IInv, TypeOK
      <4> QED
        BY <1>3, <4>2, <4>3
    <3> QED
      BY <3>1, <3>2 DEF HeadFollows
  <2> QED
    BY <1>3, <2>1, <2>2, <2>3, EntriesSteps
<1> QED
  BY <1>1, <1>2, <1>3 DEF Next

(* As long as the power stays on, HEAD names the last entry or the one     *)
(* before it, however many calls are killed or fail.                       *)
THEOREM HeadStaysClose ==
  ASSUME "power" \notin Faults
  PROVE  Spec => []HeadTrails
<1>1. Init => HeadFollows
  BY DEF Init, HeadFollows, HeadTrails, HeadMatches, HeadOf, NoHead, Tip
<1>2. IInv /\ HeadFollows /\ [Next]_vars => HeadFollows'
  BY HeadFollowsStep
<1>3. HeadFollows => HeadTrails
  BY DEF HeadFollows
<1> QED
  BY <1>1, <1>2, <1>3, Invariance, PTL DEF Spec

-----------------------------------------------------------------------------
(* Before the first fault only a commit on its way leaves a temporary file *)
(* in entries/ or a HEAD that does not match, and it holds the lock.       *)
Tidy ==
    /\ stray => \E p \in Procs : op[p] \in {"staged", "linked"}
    /\ HeadMatches \/ \E p \in Procs : op[p] \in {"linked", "unlinked", "synced", "headStaged"}

Quiet == faults = 0 => Tidy /\ NoTornRead

LEMMA FreeIsTidy ==
  ASSUME IInv, Tidy, Free
  PROVE  Scan = "OK" /\ Snapshot = "OK" /\ HeadMatches
<1>1. \A p \in Procs : op[p] = "idle"
  BY NoneAssumption DEF IInv, LockOwned, Free
<1>2. ~stray
  BY <1>1 DEF Tidy
<1>3. HeadMatches
  BY <1>1 DEF Tidy
<1>4. Links(entries) /\ Distinct(entries)
  BY DEF IInv, LogIntact
<1>5. Scan = "OK"
  BY <1>2, <1>4 DEF Scan
<1>6. Snapshot = "OK"
  <2>1. HeadCheck = "OK"
    BY <1>3 DEF HeadCheck, HeadMatches, HeadOf, NoHead, IInv, TypeOK
  <2> QED
    BY <1>5, <2>1 DEF Snapshot
<1> QED
  BY <1>3, <1>5, <1>6

(* Under a tidy directory no call is told otherwise.                       *)
LEMMA CallIsTold ==
  ASSUME IInv, Tidy, NEW p \in Procs, Call(p)
  PROVE  /\ UNCHANGED <<entries, head, stray>>
         /\ UNCHANGED op \/ op' = [op EXCEPT ![p] = "admitted"]
         /\ Free
         /\ UNCHANGED ret \/ \E a \in Reply : /\ ret' = [ret EXCEPT ![p] = a]
                                              /\ a.code \notin ChainErrors
<1> USE FreeIsTidy DEF disk, heads, Answers
<1>1. ASSUME NEW d \in Docs, Find(p, d)
      PROVE  /\ ret' = [ret EXCEPT ![p] = FindAnswer(d)] /\ FindAnswer(d) \in Reply
             /\ FindAnswer(d).code \notin ChainErrors
  <2>1. Snapshot = "OK"
    BY <1>1 DEF Find
  <2>2. FindAnswer(d).code \in {"ABSENT", "RECEIPT_JOB_CONFLICT", "FOUND"}
    BY <2>1 DEF FindAnswer, Answer
  <2> QED
    BY <1>1, <2>2, FindReply DEF Find, ChainErrors
<1>2. ASSUME NEW d \in Docs, NEW late \in BOOLEAN, NEW fits \in BOOLEAN,
             CommitAnswered(p, d, late, fits)
      PROVE  \E a \in Reply : ret' = [ret EXCEPT ![p] = a] /\ a.code \notin ChainErrors
  <2> DEFINE verdict == Admission(Proposal(p, d), late, fits)
             a == Answer(verdict, d, IF verdict = "REPLAYED" THEN Proposal(p, d) ELSE None)
  <2>1. Snapshot = "OK"
    BY <1>2 DEF CommitAnswered
  <2>2. verdict \notin ChainErrors
    BY <2>1 DEF Admission, ChainErrors
  <2>3. verdict \in Codes
    BY <1>2, CommitReply DEF CommitAnswered
  <2>4. a \in Reply /\ a.code = verdict
    BY <2>3, ProposalType DEF Answer, Reply
  <2> QED
    BY <1>2, <2>2, <2>4 DEF CommitAnswered
<1>3. CASE Verify(p) \/ Recover(p)
  <2> DEFINE a == Answer("VERIFIED", None, None)
  <2>1. a \in Reply /\ a.code \notin ChainErrors
    BY DEF Answer, Reply, Codes, ChainErrors
  <2>2. Free /\ Scan = "OK" /\ Snapshot = "OK" /\ HeadMatches
    BY <1>3 DEF Verify, Recover
  <2>3. ret' = [ret EXCEPT ![p] = a] /\ UNCHANGED <<entries, head, stray, op>>
    BY <1>3, <2>2 DEF Verify, Recover
  <2> QED
    BY <2>1, <2>2, <2>3
<1> QED
  BY <1>1, <1>2, <1>3 DEF Call, Find, Commit, CommitAnswered, CommitAdmitted

LEMMA QuietStep == IInv /\ Quiet /\ [Next]_vars => Quiet'
<1> SUFFICES ASSUME IInv, Quiet, [Next]_vars, faults' = 0
             PROVE  Tidy' /\ NoTornRead'
  BY DEF Quiet
<1> USE DEF NoTornRead
<1>1. ~PowerLoss /\ \A p \in Procs : ~Fail(p) /\ ~Kill(p)
  <2>1. faults' # faults + 1
    BY DEF IInv, TypeOK
  <2>2. \A kind : ~Fault(kind)
    BY <2>1 DEF Fault
  <2> QED
    BY <2>2 DEF PowerLoss, Fail, Kill, StageFails, PublishFails, ConfirmFails, HeadFails
<1>2. ASSUME NEW p \in Procs, Call(p) \/ Proceed(p)
      PROVE  faults = 0
  BY <1>2 DEF Call, Find, Verify, Recover, Commit, CommitAnswered, CommitAdmitted, Answers,
              Proceed, Stage, LinkEntry, UnlinkTemp, SyncEntries, StageHead, ReplaceHead,
              SyncHead
<1>3. CASE UNCHANGED vars
  BY <1>3 DEF vars, disk, heads, calls, Quiet, Tidy, HeadMatches
<1>4. ASSUME NEW p \in Procs, Call(p)
      PROVE  Tidy' /\ NoTornRead'
  <2>1. Tidy /\ NoTornRead /\ faults = 0
    BY <1>2, <1>4 DEF Quiet
  <2>2. ~stray /\ HeadMatches
    BY <2>1, <1>4, CallIsTold, FreeIsTidy DEF Scan
  <2>3. ~stray' /\ HeadMatches'
    BY <2>1, <2>2, <1>4, CallIsTold DEF HeadMatches
  <2>4. Tidy'
    BY <2>3 DEF Tidy
  <2>5. NoTornRead'
    BY <2>1, <1>4, CallIsTold DEF IInv, TypeOK
  <2> QED
    BY <2>4, <2>5
<1>5. ASSUME NEW p \in Procs, Proceed(p)
      PROVE  Tidy' /\ NoTornRead'
  <2>1. Tidy /\ NoTornRead /\ faults = 0 /\ op \in [Procs -> Ops]
    BY <1>2, <1>5 DEF Quiet, IInv, TypeOK
  <2>2. \A q \in Procs : q # p => op[q] = "idle"
    BY <1>5 DEF IInv, TypeOK, LockOwned, Proceed, Stage, LinkEntry, UnlinkTemp, SyncEntries,
                StageHead, ReplaceHead, SyncHead, Advance
  <2>3. stray => op[p] \in {"staged", "linked"}
    BY <2>1, <2>2 DEF Tidy
  <2>4. HeadMatches \/ op[p] \in {"linked", "unlinked", "synced", "headStaged"}
    BY <2>1, <2>2 DEF Tidy
  <2>5. stray' => op'[p] \in {"staged", "linked"}
    BY <1>5, <2>1, <2>3
    DEF Proceed, Stage, LinkEntry, UnlinkTemp, SyncEntries, StageHead, ReplaceHead, SyncHead,
        Advance, disk
  <2>6. HeadMatches' \/ op'[p] \in {"linked", "unlinked", "synced", "headStaged"}
    BY <1>5, <2>1, <2>4
    DEF Proceed, Stage, LinkEntry, UnlinkTemp, SyncEntries, StageHead, ReplaceHead, SyncHead,
        Advance, disk, heads, HeadMatches
  <2>7. UNCHANGED ret \/ \E a : /\ ret' = [ret EXCEPT ![p] = a]
                                /\ a.code \in {"COMMITTED", "RECOVERED"}
    <3>1. CASE SyncHead(p)
      <4>1. Answer("COMMITTED", draft[p].doc, draft[p]).code = "COMMITTED"
            /\ Answer("RECOVERED", None, None).code = "RECOVERED"
        BY DEF Answer
      <4>2. \/ ret' = [ret EXCEPT ![p] = Answer("COMMITTED", draft[p].doc, draft[p])]
            \/ ret' = [ret EXCEPT ![p] = Answer("RECOVERED", None, None)]
        BY <3>1 DEF SyncHead, Returns
      <4> QED
        BY <4>1, <4>2
    <3> QED
      BY <1>5, <3>1
      DEF Proceed, Stage, LinkEntry, UnlinkTemp, SyncEntries, StageHead, ReplaceHead
  <2>8. NoTornRead'
    BY <2>1, <2>7 DEF IInv, TypeOK, ChainErrors
  <2> QED
    BY <2>5, <2>6, <2>8 DEF Tidy
<1> QED
  BY <1>1, <1>3, <1>4, <1>5 DEF Next

(* Without a fault no caller is ever told that the chain or HEAD is        *)
(* inconsistent, however many callers share the directory: the states in   *)
(* which it is are passed through under the lock.                          *)
THEOREM NobodyReadsTorn == Spec => []NoTornRead
<1>1. Init => Quiet
  BY DEF Init, Quiet, Tidy, NoTornRead, HeadMatches, HeadOf, NoHead, Tip, Answer, ChainErrors
<1>2. IInv /\ Quiet /\ [Next]_vars => Quiet'
  BY QuietStep
<1>3. Quiet => NoTornRead
  BY DEF Quiet, NoTornRead
<1> QED
  BY <1>1, <1>2, <1>3, Invariance, PTL DEF Spec

-----------------------------------------------------------------------------
(* The refinement of ReceiptLedger: the link of an entry admits it, every  *)
(* answer tells what is true of the entries, and all other steps stutter.  *)
Tells(p, a) == ret' = [ret EXCEPT ![p] = a] /\ Ledger!True(a) /\ UNCHANGED entries

LEMMA TellsImplements ==
  ASSUME IInv, NEW p \in Procs, NEW a, Tells(p, a) PROVE Ledger!Next
<1>1. ret'[p] = a
  BY DEF Tells, IInv, TypeOK
<1>2. Ledger!Tell(p, ret'[p])
  BY <1>1 DEF Tells, Ledger!Tell
<1> QED
  BY <1>2 DEF Ledger!Next

(* Codes that say nothing of the entries.                                  *)
LEMMA SilentIsTrue ==
  ASSUME NEW a, a.code \in Ledger!Silent PROVE Ledger!True(a)
  BY DEF Ledger!True

(* The chain that _scan_entries reads is never broken, so an answer about  *)
(* the directory names a leftover file or HEAD.                            *)
LEMMA SnapshotIsSilent == ASSUME IInv PROVE Snapshot \in Ledger!Silent \cup {"OK"}
<1>1. Links(entries) /\ Distinct(entries)
  BY DEF IInv, LogIntact
<1>2. Scan \in {"OK", "RECEIPT_ENTRY_ORDER_INVALID"}
  BY <1>1 DEF Scan
<1>3. HeadCheck \in {"OK", "RECEIPT_HEAD_MISSING", "RECEIPT_HEAD_MISMATCH"}
  BY DEF HeadCheck
<1> QED
  BY <1>2, <1>3 DEF Snapshot, Ledger!Silent

LEMMA BoundIsBinding == \A d : Ledger!Binding(d) = Bound(d)
  BY DEF Ledger!Binding, Bound

LEMMA FindIsTrue ==
  ASSUME IInv, NEW d \in Docs PROVE Ledger!True(FindAnswer(d))
<1>1. CASE Snapshot # "OK"
  <2>1. FindAnswer(d).code = Snapshot
    BY <1>1 DEF FindAnswer, Answer
  <2> QED
    BY <1>1, <2>1, SnapshotIsSilent, SilentIsTrue
<1>2. CASE Snapshot = "OK" /\ Bound(d) = {}
  <2>1. FindAnswer(d).code = "ABSENT" /\ FindAnswer(d).asked = d
    BY <1>2 DEF FindAnswer, Answer
  <2> QED
    BY <1>2, <2>1, BoundIsBinding DEF Ledger!True
<1>3. CASE Snapshot = "OK" /\ Bound(d) # {}
  <2> DEFINE i == CHOOSE i \in Bound(d) : TRUE
  <2>1. i \in Bound(d)
    BY <1>3
  <2> HIDE DEF i
  <2>2. CASE entries[i].doc.job_spec_sha256 # d.job_spec_sha256
    <3>1. FindAnswer(d).code = "RECEIPT_JOB_CONFLICT" /\ FindAnswer(d).asked = d
      BY <1>3, <2>2 DEF FindAnswer, Answer, i
    <3>2. Ledger!Binding(d) # Ledger!SameJob(d)
      BY <2>1, <2>2, BoundIsBinding DEF Ledger!SameJob
    <3> QED
      BY <3>1, <3>2 DEF Ledger!True
  <2>3. CASE entries[i].doc.job_spec_sha256 = d.job_spec_sha256
    <3>1. /\ FindAnswer(d).code = "FOUND" /\ FindAnswer(d).asked = d
          /\ FindAnswer(d).receipt = entries[i]
      BY <1>3, <2>3 DEF FindAnswer, Answer, i
    <3>2. /\ i \in 1..Len(entries)
          /\ entries[i].doc.idempotency_key = d.idempotency_key
      BY <2>1 DEF Bound
    <3> QED
      BY <2>3, <3>1, <3>2 DEF Ledger!True, Ledger!Holds
  <2> QED
    BY <2>2, <2>3
<1> QED
  BY <1>1, <1>2, <1>3

LEMMA CommitIsTrue ==
  ASSUME IInv, NEW p \in Procs, NEW d \in Docs, NEW late \in BOOLEAN, NEW fits \in BOOLEAN,
         Admission(Proposal(p, d), late, fits) # "ADMITTED"
  PROVE  LET verdict == Admission(Proposal(p, d), late, fits)
         IN  Ledger!True(Answer(verdict, d,
                                IF verdict = "REPLAYED" THEN Proposal(p, d) ELSE None))
<1> DEFINE r == Proposal(p, d)
           verdict == Admission(r, late, fits)
           a == Answer(verdict, d, IF verdict = "REPLAYED" THEN r ELSE None)
<1>1. a.code = verdict /\ a.asked = d /\ (verdict = "REPLAYED" => a.receipt = r)
  BY DEF Answer
<1>2. r.doc = d
  BY DEF Proposal
<1> HIDE DEF r, verdict, a
<1>3. CASE Snapshot # "OK"
  <2>1. verdict = Snapshot
    BY <1>3 DEF verdict, Admission
  <2>2. a.code \in Ledger!Silent
    BY <1>1, <1>3, <2>1, SnapshotIsSilent
  <2> QED
    BY <2>2, SilentIsTrue DEF a, verdict, r
<1>4. CASE Snapshot = "OK" /\ Bound(d) # {}
  <2> DEFINE i == CHOOSE i \in Bound(d) : TRUE
  <2>1. i \in Bound(d)
    BY <1>4
  <2> HIDE DEF i
  <2>2. i \in 1..Len(entries) /\ i \in Ledger!Binding(d)
    BY <2>1, BoundIsBinding DEF Bound
  <2>3. verdict = IF entries[i].doc.job_spec_sha256 # d.job_spec_sha256
                  THEN "RECEIPT_JOB_CONFLICT"
                  ELSE IF entries[i] # r THEN "RECEIPT_REPLAY_CONFLICT"
                  ELSE IF fits THEN "REPLAYED" ELSE "WORKSPACE_BYTES_EXCEEDED"
    BY <1>2, <1>4 DEF verdict, Admission, i
  <2>4. CASE entries[i].doc.job_spec_sha256 # d.job_spec_sha256
    <3>1. Ledger!Binding(d) # Ledger!SameJob(d)
      BY <2>2, <2>4 DEF Ledger!SameJob
    <3> QED
      BY <1>1, <2>3, <2>4, <3>1 DEF Ledger!True, a, verdict, r
  <2>5. CASE entries[i].doc.job_spec_sha256 = d.job_spec_sha256 /\ entries[i] # r
    <3>1. i \in Ledger!SameJob(d)
      BY <2>2, <2>5 DEF Ledger!SameJob
    <3> QED
      BY <1>1, <2>3, <2>5, <3>1 DEF Ledger!True, a, verdict, r
  <2>6. CASE entries[i].doc.job_spec_sha256 = d.job_spec_sha256 /\ entries[i] = r
    <3>1. Ledger!Holds(r)
      BY <2>2, <2>6 DEF Ledger!Holds
    <3> QED
      BY <1>1, <1>2, <2>3, <2>6, <3>1 DEF Ledger!True, Ledger!Silent, a, verdict, r
  <2> QED
    BY <2>4, <2>5, <2>6
<1>5. CASE Snapshot = "OK" /\ Bound(d) = {}
  <2>1. verdict \in {"RECEIPT_STALE_HEAD", "RECEIPT_DEADLINE_EXPIRED",
                     "WORKSPACE_BYTES_EXCEEDED"}
    BY <1>2, <1>5 DEF verdict, Admission, r
  <2>2. Ledger!Binding(d) = {}
    BY <1>5, BoundIsBinding
  <2> QED
    BY <1>1, <2>1, <2>2 DEF Ledger!True, Ledger!Silent, a, verdict, r
<1> QED
  BY <1>3, <1>4, <1>5 DEF a, verdict, r

(* The last entry while a commit is past its link.                         *)
LEMMA LinkedIsBound ==
  ASSUME IInv, NEW p \in Procs,
         op[p] \in {"linked", "unlinked", "synced", "headStaged", "headReplaced"}
  PROVE  /\ Ledger!Holds(draft[p])
         /\ \E i \in Ledger!SameJob(draft[p].doc) : entries[i].doc = draft[p].doc
<1>1. entries # <<>> /\ entries[Len(entries)] = draft[p] /\ entries \in Seq(Receipt)
  BY DraftLogged DEF IInv, TypeOK
<1>2. Len(entries) \in 1..Len(entries)
  BY <1>1
<1> QED
  BY <1>1, <1>2 DEF Ledger!Holds, Ledger!SameJob, Ledger!Binding

LEMMA CallImplements ==
  ASSUME IInv, NEW p \in Procs, Call(p)
  PROVE  Ledger!Next \/ UNCHANGED <<entries, ret>>
<1> USE DEF disk, heads, Answers
<1>1. ASSUME NEW d \in Docs, Find(p, d) PROVE Tells(p, FindAnswer(d))
  BY <1>1, FindIsTrue DEF Find, Tells
<1>2. ASSUME NEW d \in Docs, NEW late \in BOOLEAN, NEW fits \in BOOLEAN,
             CommitAnswered(p, d, late, fits)
      PROVE  \E a : Tells(p, a)
  <2> DEFINE verdict == Admission(Proposal(p, d), late, fits)
             a == Answer(verdict, d, IF verdict = "REPLAYED" THEN Proposal(p, d) ELSE None)
  <2>1. Ledger!True(a)
    BY <1>2, CommitIsTrue DEF CommitAnswered
  <2>2. ret' = [ret EXCEPT ![p] = a] /\ UNCHANGED entries
    BY <1>2 DEF CommitAnswered
  <2> QED
    BY <2>1, <2>2 DEF Tells
<1>3. ASSUME NEW d \in Docs, NEW late \in BOOLEAN, NEW fits \in BOOLEAN,
             CommitAdmitted(p, d, late, fits)
      PROVE  UNCHANGED <<entries, ret>>
  BY <1>3 DEF CommitAdmitted
<1>4. CASE Verify(p)
  <2> DEFINE a == Answer(IF Snapshot = "OK" THEN "VERIFIED" ELSE Snapshot, None, None)
  <2>1. a.code \in Ledger!Silent
    BY SnapshotIsSilent DEF Answer, Ledger!Silent
  <2>2. Tells(p, a)
    BY <1>4, <2>1, SilentIsTrue DEF Verify, Tells
  <2> QED
    BY <2>2, TellsImplements
<1>5. CASE Recover(p)
  <2> DEFINE a == Answer(IF Scan = "OK" THEN "VERIFIED" ELSE Scan, None, None)
  <2>1. a.code \in Ledger!Silent
    <3>1. Snapshot # "OK" => Snapshot \in Ledger!Silent
      BY SnapshotIsSilent
    <3> QED
      BY <3>1 DEF Snapshot, Answer, Ledger!Silent
  <2>2. UNCHANGED <<entries, ret>> \/ Tells(p, a)
    BY <1>5, <2>1, SilentIsTrue DEF Recover, Tells
  <2> QED
    BY <2>2, TellsImplements
<1> QED
  BY <1>1, <1>2, <1>3, <1>4, <1>5, TellsImplements DEF Call, Commit

LEMMA ProceedImplements ==
  ASSUME IInv, NEW p \in Procs, Proceed(p)
  PROVE  Ledger!Next \/ UNCHANGED <<entries, ret>>
<1>1. CASE LinkEntry(p)
  <2>1. /\ entries' = Append(entries, draft[p]) /\ ret' = ret /\ op[p] = "staged"
    BY <1>1 DEF LinkEntry, Advance
  <2>2. draft[p] \in Receipt /\ draft[p].prev = Tip(entries) /\ Bound(draft[p].doc) = {}
    BY <2>1 DEF IInv, DraftFits
  <2>3. Ledger!Digest(entries) = Tip(entries)
    BY DEF Ledger!Digest, Tip, Sha
  <2>4. /\ draft[p].doc \in Docs
        /\ draft[p] = [doc |-> draft[p].doc, prev |-> Ledger!Digest(entries)]
    BY <2>2, <2>3 DEF Receipt
  <2>5. Ledger!Admit(draft[p].doc)
    BY <2>1, <2>2, <2>4, BoundIsBinding DEF Ledger!Admit
  <2> QED
    BY <2>4, <2>5 DEF Ledger!Next
<1>2. CASE SyncHead(p)
  <2> USE DEF SyncHead, disk, Returns
  <2>1. CASE op[p] = "headReplaced"
    <3> DEFINE a == Answer("COMMITTED", draft[p].doc, draft[p])
    <3>1. Ledger!True(a)
      BY <2>1, LinkedIsBound DEF Answer, Ledger!True
    <3>2. Tells(p, a)
      BY <1>2, <2>1, <3>1 DEF Tells
    <3> QED
      BY <3>2, TellsImplements
  <2>2. CASE op[p] # "headReplaced"
    <3> DEFINE a == Answer("RECOVERED", None, None)
    <3>1. a.code \in Ledger!Silent
      BY DEF Answer, Ledger!Silent
    <3>2. Tells(p, a)
      BY <1>2, <2>2, <3>1, SilentIsTrue DEF Tells
    <3> QED
      BY <3>2, TellsImplements
  <2> QED
    BY <2>1, <2>2
<1>3. CASE Stage(p) \/ UnlinkTemp(p) \/ SyncEntries(p) \/ StageHead(p) \/ ReplaceHead(p)
  BY <1>3 DEF Stage, UnlinkTemp, SyncEntries, StageHead, ReplaceHead, disk
<1> QED
  BY <1>1, <1>2, <1>3 DEF Proceed

(* A failed or killed call tells nothing, but a failing HEAD that the      *)
(* entry is there.                                                         *)
LEMMA FailImplements ==
  ASSUME IInv, NEW p \in Procs, Fail(p) \/ Kill(p)
  PROVE  Ledger!Next
<1>1. \E a : Tells(p, a)
  <2> USE DEF disk, Returns
  <2>1. ASSUME NEW code \in {"RECEIPT_WRITE_FAILED", "OSError", "RECEIPT_FSYNC_FAILED",
                             "RECEIPT_HEAD_RECOVERY_FAILED", "none"},
               NEW d, UNCHANGED entries, ret' = [ret EXCEPT ![p] = Answer(code, d, None)]
        PROVE  \E a : Tells(p, a)
    <3>1. Answer(code, d, None).code \in Ledger!Silent
      BY DEF Answer, Ledger!Silent
    <3>2. Tells(p, Answer(code, d, None))
      BY <2>1, <3>1, SilentIsTrue DEF Tells
    <3> QED
      BY <3>2
  <2>2. CASE StageFails(p) \/ PublishFails(p) \/ Kill(p)
    BY <2>1, <2>2 DEF StageFails, PublishFails, Kill
  <2>3. CASE ConfirmFails(p)
    BY <2>1, <2>3 DEF ConfirmFails
  <2>4. CASE HeadFails(p)
    <3>1. CASE op[p] \in {"synced", "headStaged", "headReplaced"}
      <4> DEFINE a == Answer("RECEIPT_HEAD_WRITE_FAILED", draft[p].doc, None)
      <4>1. Ledger!True(a)
        BY <3>1, LinkedIsBound DEF Answer, Ledger!True
      <4>2. Tells(p, a)
        BY <2>4, <3>1, <4>1 DEF HeadFails, Tells
      <4> QED
        BY <4>2
    <3> QED
      BY <2>1, <2>4, <3>1 DEF HeadFails, RecoveryErrors
  <2> QED
    BY <2>2, <2>3, <2>4 DEF Fail
<1> QED
  BY <1>1, TellsImplements

(* As long as the power stays on the log is a ledger: a key is bound once, *)
(* nothing bound is ever changed, and every answer to a caller is true of  *)
(* the entries at one instant of its call.                                 *)
THEOREM LogIsLedger ==
  ASSUME "power" \notin Faults
  PROVE  Spec => ImplementsLedger
<1>1. Init => Ledger!Init
  BY DEF Init, Ledger!Init, Answer
<1>2. ASSUME IInv, [Next]_vars
      PROVE  [Ledger!Next]_<<entries, ret>>
  <2>1. ~PowerLoss
    BY DEF PowerLoss, Fault
  <2>2. CASE UNCHANGED vars
    BY <2>2 DEF vars, disk, calls
  <2> QED
    BY <1>2, <2>1, <2>2, CallImplements, ProceedImplements, FailImplements DEF Next
<1> QED
  BY <1>1, <1>2, Invariance, PTL DEF Spec, ImplementsLedger, Ledger!Spec
=============================================================================
