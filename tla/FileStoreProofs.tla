---------------------------- MODULE FileStoreProofs ----------------------------
(* Proofs about FileStore, for any number of calls: uploads are durable, bytes *)
(* have their row, other tenants find nothing, artifacts are whole, and, with  *)
(* no call beside a deletion, what was deleted is gone.                        *)
EXTENDS FileStore, TLAPS

PCs == {"idle", "store", "save", "ask", "select", "note", "open", "keep", "write", "list",
        "unlink", "pop", "remove", "audit", "told", "missing", "broken"}

CallType == [pc : PCs, kind : Kinds \cup {None}, found : BOOLEAN, own : BOOLEAN,
             after : BOOLEAN]

Typed ==
    /\ disk \in BOOLEAN /\ row \in BOOLEAN /\ metadata \in BOOLEAN /\ files \in BOOLEAN
    /\ handed \in BOOLEAN /\ deleting \in BOOLEAN /\ deleted \in BOOLEAN /\ calm \in BOOLEAN
    /\ bundle \in Nat \cup {None}
    /\ listed \in BOOLEAN
    /\ made \in Nat
    /\ call \in [Calls -> CallType]

(* A call keeps to the steps of its kind; other tenants' calls end before they *)
(* get to the file.                                                            *)
StepsOfKind(x) ==
    /\ x.pc = "idle" <=> x.kind = None
    /\ x.pc \in {"store", "save"} <=> x.kind = "upload"
    /\ x.pc \in {"open", "keep"} => x.kind \in {"rows", "export"}
    /\ x.pc \in {"write", "list"} => x.kind = "export"
    /\ x.pc \in {"unlink", "pop", "remove", "audit"} => x.kind = "delete"
    /\ x.kind = "upload" => x.own
    /\ ~x.own => x.pc \in {"ask", "select", "note", "missing"}

(* What holds of the stores when a call is where it is: an upload comes before *)
(* everything else, the bytes before the row; a deletion takes the bytes       *)
(* first; and without a deletion nothing is missed.                            *)
StoresAgree(x) ==
    /\ x.kind \notin {None, "upload"} => handed
    /\ x.kind = "upload" => ~handed
    /\ x.pc = "save" => disk
    /\ x.kind = "delete" /\ x.own => deleting
    /\ x.pc \in {"pop", "remove", "audit"} => ~disk
    /\ x.pc = "audit" => ~row
    /\ x.own /\ ~deleting => /\ x.pc \notin {"missing", "broken"}
                             /\ x.pc = "note" => x.found

(* The file's history: bytes and row are there until a deletion is asked for,  *)
(* and the bytes never without the row.                                        *)
FileThere ==
    /\ handed /\ ~deleting => disk /\ row
    /\ handed /\ disk => row
    /\ deleted => handed /\ ~disk /\ ~row

(* There is one upload, and while it is under way there is nothing else.       *)
OneUpload ==
    /\ made = 0 => ~handed /\ \A c \in Calls : call[c].pc = "idle"
    /\ \A c, d \in Calls : call[c].kind = "upload" /\ d # c => call[d].pc = "idle"

IInv == /\ Typed
        /\ \A c \in Calls : StepsOfKind(call[c]) /\ StoresAgree(call[c])
        /\ FileThere
        /\ OneUpload

(* The one artifact: its export is the only one, and writes one file after the *)
(* other until all are there.                                                  *)
ArtifactInv ==
    /\ \A c, d \in Calls : call[c].kind = "export" /\ call[d].kind = "export" => c = d
    /\ \A c \in Calls :
          /\ call[c].kind = "export" => bundle # None
          /\ call[c].kind = "export" /\ call[c].pc # "told" => ~listed
          /\ call[c].kind = "export" /\ call[c].pc \notin {"list", "told"}
                => bundle \in 0..(Len(Formats) - 1)
          /\ call[c].pc = "list" => bundle = Len(Formats)
    /\ ArtifactIsWhole

(* With no call beside a deletion, memory is empty from Pop on and stays empty *)
(* once the deletion has answered: nobody is left who could fill it.           *)
CalmInv ==
    /\ \A c \in Calls : call[c].after => deleted
    /\ calm =>
          /\ \A c, d \in Calls : call[c].kind = "delete" /\ d # c => call[d].pc = "idle"
          /\ \A c \in Calls : call[c].pc \in {"remove", "audit"} => ~metadata /\ ~files
          /\ deleted => /\ ~metadata /\ ~files
                        /\ \A c \in Calls :
                              /\ call[c].pc \in {"idle", "ask", "select", "note", "missing"}
                              /\ call[c].pc = "note" => ~call[c].found

-----------------------------------------------------------------------------
LEMMA FormatsLen == Len(Formats) = 8
  BY DEF Formats

LEMMA IdleTyped == Idle \in CallType /\ StepsOfKind(Idle)
  BY FileStoreAssumption DEF Idle, CallType, PCs, StepsOfKind, Kinds

LEMMA IdleAgrees ==
    ASSUME NEW x, x = Idle PROVE StoresAgree(x)'
  BY FileStoreAssumption DEF Idle, StoresAgree, Kinds

(* A call that moves on.                                                       *)
LEMMA GotoIs ==
    ASSUME Typed, NEW c \in Calls, NEW l \in PCs, Goto(c, l)
    PROVE  \E new \in CallType :
              /\ call' = [call EXCEPT ![c] = new]
              /\ new.pc = l /\ new.kind = call[c].kind /\ new.own = call[c].own
              /\ new.found = call[c].found /\ new.after = call[c].after
  <1>1. call[c] \in CallType
    BY DEF Typed
  <1>2. PICK new : new = [call[c] EXCEPT !.pc = l]
    OBVIOUS
  <1>3. /\ new \in CallType
        /\ new.pc = l /\ new.kind = call[c].kind /\ new.own = call[c].own
        /\ new.found = call[c].found /\ new.after = call[c].after
    BY <1>1, <1>2 DEF CallType
  <1>4. call' = [call EXCEPT ![c] = new]
    BY <1>2 DEF Goto
  <1> QED
    BY <1>3, <1>4

(* Where a call goes with the metadata.                                        *)
LEMMA WithMetadataIs ==
    ASSUME Typed, NEW c \in Calls, WithMetadata(c),
           call[c].kind \in Kinds \ {"upload"}
    PROVE  \E l \in PCs :
              /\ Goto(c, l)
              /\ ~call[c].own => l = "missing"
              /\ call[c].own =>
                    \/ call[c].kind = "delete" /\ l = "unlink"
                    \/ call[c].kind = "metadata" /\ l = "told"
                    \/ call[c].kind \in {"rows", "export"} /\ l = "open"
                    \/ call[c].kind = "rows" /\ l = "told"
                    \/ call[c].kind = "export" /\ l = "write"
  BY DEF WithMetadata, Serve, WithRows, Kinds, PCs

(* A step of one call keeps the invariant if the call keeps to its kind and    *)
(* agrees with the stores, handed and deleting last, and only an upload        *)
(* writes.                                                                     *)
LEMMA StepKeeps ==
    ASSUME IInv, NEW c \in Calls, NEW new \in CallType,
           call' = [call EXCEPT ![c] = new],
           StepsOfKind(new), StoresAgree(new)',
           call[c].pc = "idle" => handed \/ made = 0,
           handed => handed',
           deleting => deleting',
           handed' => handed \/ call[c].pc = "save",
           disk' => disk \/ call[c].pc = "store",
           disk => disk' \/ call[c].pc = "unlink",
           row' => row \/ call[c].pc = "save",
           made' \in Nat \ {0} \/ (made' = made /\ made # 0),
           new.kind = "upload" => call[c].kind = "upload" \/ made = 0,
           /\ disk' \in BOOLEAN /\ row' \in BOOLEAN
           /\ metadata' \in BOOLEAN /\ files' \in BOOLEAN,
           /\ handed' \in BOOLEAN /\ deleting' \in BOOLEAN
           /\ deleted' \in BOOLEAN /\ calm' \in BOOLEAN,
           bundle' \in Nat \cup {None}, listed' \in BOOLEAN,
           FileThere'
    PROVE  IInv'
  <1>1. /\ call' \in [Calls -> CallType]
        /\ call'[c] = new
        /\ \A d \in Calls \ {c} : call'[d] = call[d]
    BY DEF IInv, Typed
  <1>2. made' \in Nat \ {0}
    BY DEF IInv, Typed
  <1>3. Typed'
    BY <1>1, <1>2 DEF Typed
  <1>4. \A d \in Calls : StepsOfKind(call'[d])
    BY <1>1 DEF IInv
  <1>5. ASSUME NEW d \in Calls \ {c} PROVE StoresAgree(call[d])'
    <2>1. call'[d] = call[d] /\ StoresAgree(call[d]) /\ StepsOfKind(call[d])
          /\ StepsOfKind(call[c])
      BY <1>1 DEF IInv
    <2>2. CASE call[d].kind = "upload"
      <3>1. call[c].pc = "idle" /\ made # 0
        BY <2>1, <2>2 DEF IInv, OneUpload, StepsOfKind
      <3> QED
        BY <2>1, <2>2, <3>1 DEF StoresAgree, StepsOfKind
    <2>3. CASE call[d].kind # "upload"
      <3>1. CASE call[c].kind = "upload"
        <4>1. call[d].pc = "idle"
          BY <1>5, <3>1 DEF IInv, OneUpload
        <4> QED
          BY <2>1, <4>1, FileStoreAssumption DEF StoresAgree, StepsOfKind, Kinds
      <3>2. CASE call[c].kind # "upload"
        BY <2>1, <2>3, <3>2 DEF StoresAgree, StepsOfKind
      <3> QED
        BY <3>1, <3>2
    <2> QED
      BY <2>2, <2>3
  <1>6. OneUpload'
    <2>1. ASSUME NEW d \in Calls \ {c}, call[d].kind = "upload" PROVE FALSE
      <3>1. call[c].pc = "idle" /\ made # 0 /\ ~handed
        BY <2>1 DEF IInv, OneUpload, StepsOfKind, StoresAgree
      <3> QED
        BY <3>1
    <2>2. ASSUME NEW d \in Calls \ {c}, new.kind = "upload" PROVE call[d].pc = "idle"
      BY <2>2 DEF IInv, OneUpload
    <2> QED
      BY <1>1, <1>2, <2>1, <2>2 DEF OneUpload
  <1> QED
    BY <1>1, <1>3, <1>4, <1>5, <1>6 DEF IInv

(* A call that only moves on, or ends, and leaves the stores alone.            *)
LEMMA MoveKeeps ==
    ASSUME IInv, NEW c \in Calls, NEW new \in CallType,
           call' = [call EXCEPT ![c] = new],
           StepsOfKind(new), StoresAgree(new)',
           call[c].pc # "idle", new.kind \in {call[c].kind, None},
           UNCHANGED <<disk, row, handed, deleting, deleted, made>>,
           metadata' \in BOOLEAN, files' \in BOOLEAN, calm' \in BOOLEAN,
           bundle' \in Nat \cup {None}, listed' \in BOOLEAN
    PROVE  IInv'
  <1>1. made # 0 /\ made' = made
    BY DEF IInv, OneUpload
  <1>2. /\ disk' \in BOOLEAN /\ row' \in BOOLEAN
        /\ handed' \in BOOLEAN /\ deleting' \in BOOLEAN /\ deleted' \in BOOLEAN
    BY Zenon DEF IInv, Typed
  <1>3. FileThere'
    BY DEF IInv, FileThere
  <1>4. new.kind = "upload" => call[c].kind = "upload"
    BY FileStoreAssumption DEF Kinds
  <1> QED
    BY <1>1, <1>2, <1>3, <1>4, StepKeeps

LEMMA FinishKeeps ==
    ASSUME IInv, NEW c \in Calls, Finish(c), call[c].pc # "idle",
           UNCHANGED <<disk, row, handed, deleting, deleted, made>>,
           metadata' \in BOOLEAN, files' \in BOOLEAN, calm' \in BOOLEAN,
           bundle' \in Nat \cup {None}, listed' \in BOOLEAN
    PROVE  IInv'
  <1>1. Idle.kind = None
    BY DEF Idle
  <1> QED
    BY <1>1, IdleTyped, IdleAgrees, MoveKeeps DEF Finish

LEMMA InitIInv == Init => IInv
  <1> SUFFICES ASSUME Init PROVE IInv
    OBVIOUS
  <1>1. Typed
    BY IdleTyped DEF Init, Typed
  <1>2. \A c \in Calls : call[c] = Idle
    BY DEF Init
  <1>3. ASSUME NEW c \in Calls PROVE StepsOfKind(call[c]) /\ StoresAgree(call[c])
    <2>1. call[c] = Idle
      BY <1>2
    <2>2. Idle.pc = "idle" /\ Idle.kind = None
      BY DEF Idle
    <2>3. StoresAgree(call[c])
      BY <2>1, <2>2, FileStoreAssumption DEF StoresAgree, Kinds
    <2> QED
      BY <2>1, <2>3, IdleTyped
  <1> QED
    BY <1>1, <1>2, <1>3, FileStoreAssumption
    DEF Init, Idle, IInv, FileThere, OneUpload, Kinds

(* Facts about the caller of every step but Upload and Request.                *)
LEMMA CallFacts ==
    ASSUME IInv, NEW c \in Calls
    PROVE  /\ call[c] \in CallType /\ StepsOfKind(call[c]) /\ StoresAgree(call[c])
           /\ disk \in BOOLEAN /\ row \in BOOLEAN /\ metadata \in BOOLEAN /\ files \in BOOLEAN
           /\ handed \in BOOLEAN /\ deleting \in BOOLEAN /\ deleted \in BOOLEAN
           /\ calm \in BOOLEAN /\ listed \in BOOLEAN
           /\ bundle \in Nat \cup {None} /\ made \in Nat
  <1>1. call[c] \in CallType
    BY DEF IInv, Typed
  <1> QED
    BY <1>1, Zenon DEF IInv, Typed

LEMMA UploadIInv ==
    ASSUME IInv, NEW c \in Calls, Upload(c) PROVE IInv'
  <1>1. /\ made = 0 /\ made' = 1
        /\ UNCHANGED <<bundle, listed, disk, row, metadata, files, handed, deleting,
                       deleted, calm>>
        /\ ~handed
        /\ \A d \in Calls : call[d].pc = "idle"
    BY DEF Upload, artifact, IInv, OneUpload
  <1>2. FileThere'
    BY <1>1 DEF IInv, FileThere
  <1>3. CASE UNCHANGED call
    <2>1. Typed'
      BY <1>1, <1>3 DEF IInv, Typed
    <2>2. OneUpload'
      BY <1>1, <1>3 DEF IInv, OneUpload
    <2>3. \A d \in Calls : StepsOfKind(call'[d]) /\ StoresAgree(call[d])'
      BY <1>1, <1>3 DEF IInv, StepsOfKind, StoresAgree
    <2> QED
      BY <1>2, <2>1, <2>2, <2>3 DEF IInv
  <1>4. CASE call' = [call EXCEPT ![c] = [Idle EXCEPT !.pc = "store", !.kind = "upload"]]
    <2>1. PICK new : new = [Idle EXCEPT !.pc = "store", !.kind = "upload"]
      OBVIOUS
    <2>2. new \in CallType /\ StepsOfKind(new) /\ new.kind = "upload" /\ new.pc = "store"
      BY <2>1, FileStoreAssumption DEF Idle, CallType, PCs, Kinds, StepsOfKind
    <2>3. StoresAgree(new)'
      BY <1>1, <2>2 DEF StoresAgree
    <2>4. call' = [call EXCEPT ![c] = new]
      BY <1>4, <2>1
    <2>5. /\ disk' \in BOOLEAN /\ row' \in BOOLEAN
          /\ metadata' \in BOOLEAN /\ files' \in BOOLEAN
          /\ handed' \in BOOLEAN /\ deleting' \in BOOLEAN
          /\ deleted' \in BOOLEAN /\ calm' \in BOOLEAN
          /\ bundle' \in Nat \cup {None} /\ listed' \in BOOLEAN
      BY <1>1, CallFacts
    <2>6. /\ handed' = handed
          /\ disk' = disk /\ row' = row /\ deleting' = deleting
          /\ made' \in Nat \ {0} /\ made = 0
      BY <1>1
    <2> QED
      BY <1>2, <2>2, <2>3, <2>4, <2>5, <2>6, StepKeeps
  <1> QED
    BY <1>3, <1>4 DEF Upload

LEMMA StoreIInv ==
    ASSUME IInv, NEW c \in Calls, Store(c) PROVE IInv'
  <1>1. /\ call[c].pc = "store" /\ call[c].kind = "upload" /\ ~handed
        /\ disk' = TRUE /\ metadata' = TRUE /\ files' = TRUE
        /\ UNCHANGED <<bundle, listed, row, made, handed, deleting, deleted, calm>>
        /\ made # 0
    BY CallFacts DEF Store, artifact, StepsOfKind, StoresAgree, IInv, OneUpload
  <1>2. PICK new \in CallType :
           /\ call' = [call EXCEPT ![c] = new]
           /\ new.pc = "save" /\ new.kind = call[c].kind /\ new.own = call[c].own
    BY GotoIs DEF Store, IInv, PCs
  <1>3. StepsOfKind(new) /\ StoresAgree(new)'
    BY <1>1, <1>2, CallFacts, FileStoreAssumption DEF StepsOfKind, StoresAgree, Kinds
  <1>4. FileThere'
    BY <1>1 DEF IInv, FileThere
  <1> QED
    BY <1>1, <1>2, <1>3, <1>4, CallFacts, StepKeeps

LEMMA SaveIInv ==
    ASSUME IInv, NEW c \in Calls, Save(c) PROVE IInv'
  <1>1. /\ call[c].pc = "save" /\ call[c].kind = "upload" /\ ~handed /\ disk
        /\ row' = TRUE /\ handed' = TRUE /\ Finish(c)
        /\ UNCHANGED <<bundle, listed, disk, metadata, files, made, deleting, deleted, calm>>
        /\ made # 0 /\ ~deleted
    BY CallFacts DEF Save, artifact, StepsOfKind, StoresAgree, IInv, OneUpload, FileThere
  <1>2. FileThere'
    BY <1>1 DEF FileThere
  <1>3. Idle.kind # "upload"
    BY FileStoreAssumption DEF Idle, Kinds
  <1> QED
    BY <1>1, <1>2, <1>3, IdleTyped, IdleAgrees, CallFacts, StepKeeps DEF Finish

(* A call that goes to a step of its kind, and leaves the stores alone.         *)
LEMMA GotoKeeps ==
    ASSUME IInv, NEW c \in Calls, NEW l \in PCs \ {"idle", "store", "save", "note"}, Goto(c, l),
           call[c].pc \notin {"idle", "store", "save"},
           l \in {"open", "keep"} => call[c].kind \in {"rows", "export"},
           l \in {"write", "list"} => call[c].kind = "export",
           l \in {"unlink", "pop", "remove", "audit"} => call[c].kind = "delete",
           ~call[c].own => l \in {"select", "missing"},
           call[c].own /\ ~deleting => l \notin {"missing", "broken"},
           l \in {"pop", "remove", "audit"} => ~disk,
           l = "audit" => ~row,
           UNCHANGED <<disk, row, handed, deleting, deleted, made>>,
           metadata' \in BOOLEAN, files' \in BOOLEAN, calm' \in BOOLEAN,
           bundle' \in Nat \cup {None}, listed' \in BOOLEAN
    PROVE  IInv'
  <1>1. PICK new \in CallType :
           /\ call' = [call EXCEPT ![c] = new]
           /\ new.pc = l /\ new.kind = call[c].kind /\ new.own = call[c].own
    BY GotoIs DEF IInv
  <1>2. call[c].kind \notin {None, "upload"}
    BY CallFacts DEF StepsOfKind
  <1>3. StepsOfKind(new)
    BY <1>1, <1>2 DEF StepsOfKind
  <1>4. StoresAgree(new)'
    BY <1>1, <1>2, CallFacts DEF StoresAgree
  <1> QED
    BY <1>1, <1>3, <1>4, MoveKeeps

LEMMA RequestIInv ==
    ASSUME IInv, NEW c \in Calls, Request(c) PROVE IInv'
  <1>1. /\ call[c].pc = "idle" /\ handed
        /\ made' = made + 1
        /\ UNCHANGED <<listed, disk, row, metadata, files, handed, deleted>>
        /\ calm' \in BOOLEAN
    BY CallFacts DEF Request, Active
  <1>2. PICK kind \in {"metadata", "rows", "export", "delete"}, own \in BOOLEAN :
           /\ bundle' = IF kind = "export" THEN 0 ELSE bundle
           /\ call' = [call EXCEPT ![c] = [Idle EXCEPT !.pc = "ask", !.kind = kind,
                                                       !.own = own, !.after = deleted]]
           /\ deleting' = (deleting \/ (kind = "delete" /\ own))
    BY DEF Request
  <1>3. PICK new : new = [Idle EXCEPT !.pc = "ask", !.kind = kind, !.own = own,
                                      !.after = deleted]
    OBVIOUS
  <1>4. new.pc = "ask" /\ new.kind = kind /\ new.own = own
    BY <1>3 DEF Idle
  <1>5. deleted \in BOOLEAN /\ deleting \in BOOLEAN /\ made \in Nat
    BY CallFacts
  <1>6. new \in CallType
    BY <1>3, <1>5 DEF Idle, CallType, PCs, Kinds
  <1>7. StepsOfKind(new) /\ StoresAgree(new)'
    BY <1>1, <1>2, <1>4, FileStoreAssumption DEF StepsOfKind, StoresAgree, Kinds
  <1>8. made' \in Nat \ {0} /\ (deleting => deleting') /\ deleting' \in BOOLEAN
    BY <1>1, <1>2, <1>5
  <1>9. FileThere'
    BY <1>1, <1>8 DEF IInv, FileThere
  <1>10. bundle' \in Nat \cup {None}
    BY <1>2, CallFacts
  <1>11. /\ disk' \in BOOLEAN /\ row' \in BOOLEAN /\ metadata' \in BOOLEAN
         /\ files' \in BOOLEAN /\ handed' \in BOOLEAN /\ deleted' \in BOOLEAN
         /\ listed' \in BOOLEAN
    BY <1>1, CallFacts
  <1>12. call' = [call EXCEPT ![c] = new] /\ new.kind # "upload"
    BY <1>2, <1>3, <1>4
  <1> QED
    BY <1>1, <1>6, <1>7, <1>8, <1>9, <1>10, <1>11, <1>12, StepKeeps

LEMMA AskIInv ==
    ASSUME IInv, NEW c \in Calls, Ask(c) PROVE IInv'
  <1>1. /\ call[c].pc = "ask"
        /\ UNCHANGED <<bundle, listed, disk, row, metadata, files, made, handed, deleting,
                       deleted, calm>>
        /\ call[c].kind \in Kinds \ {"upload"}
    BY CallFacts DEF Ask, artifact, StepsOfKind, CallType
  <1>2. CASE WithMetadata(c)
    <2>1. PICK l \in PCs :
              /\ Goto(c, l)
              /\ ~call[c].own => l = "missing"
              /\ call[c].own =>
                    \/ call[c].kind = "delete" /\ l = "unlink"
                    \/ call[c].kind = "metadata" /\ l = "told"
                    \/ call[c].kind \in {"rows", "export"} /\ l = "open"
                    \/ call[c].kind = "rows" /\ l = "told"
                    \/ call[c].kind = "export" /\ l = "write"
      BY <1>1, <1>2, WithMetadataIs DEF IInv
    <2> QED
      BY <1>1, <2>1, CallFacts, GotoKeeps
  <1>3. CASE Goto(c, "select")
    BY <1>1, <1>3, CallFacts, GotoKeeps DEF PCs
  <1> QED
    BY <1>2, <1>3 DEF Ask

LEMMA SelectIInv ==
    ASSUME IInv, NEW c \in Calls, Select(c) PROVE IInv'
  <1>1. /\ call[c].pc = "select"
        /\ UNCHANGED <<bundle, listed, disk, row, metadata, files, made, handed, deleting,
                       deleted, calm>>
        /\ call[c].kind \in Kinds \ {"upload"}
    BY CallFacts DEF Select, artifact, StepsOfKind, CallType
  <1>2. PICK new : new = [call[c] EXCEPT !.pc = "note", !.found = row /\ call[c].own]
    OBVIOUS
  <1>3. call' = [call EXCEPT ![c] = new]
    BY <1>2 DEF Select
  <1>4. (row /\ call[c].own) \in BOOLEAN
    BY CallFacts
  <1>5. /\ new \in CallType /\ new.pc = "note" /\ new.kind = call[c].kind
        /\ new.own = call[c].own /\ new.found = (row /\ call[c].own)
    BY <1>2, <1>4, CallFacts DEF CallType, PCs
  <1>6. StepsOfKind(new)
    BY <1>1, <1>5, FileStoreAssumption DEF StepsOfKind, Kinds
  <1>7. StoresAgree(call[c]) /\ FileThere
    BY CallFacts DEF IInv
  <1>8. StoresAgree(new)'
    BY <1>1, <1>5, <1>7, FileStoreAssumption DEF StoresAgree, FileThere, Kinds
  <1> QED
    BY <1>1, <1>3, <1>5, <1>6, <1>8, CallFacts, MoveKeeps

LEMMA NoteIInv ==
    ASSUME IInv, NEW c \in Calls, Note(c) PROVE IInv'
  <1>1. /\ call[c].pc = "note"
        /\ UNCHANGED <<bundle, listed, disk, row, files, made, handed, deleting, deleted, calm>>
        /\ call[c].kind \in Kinds \ {"upload"}
    BY CallFacts DEF Note, artifact, StepsOfKind, CallType
  <1>2. CASE call[c].found
    <2>1. PICK l \in PCs :
              /\ Goto(c, l)
              /\ ~call[c].own => l = "missing"
              /\ call[c].own =>
                    \/ call[c].kind = "delete" /\ l = "unlink"
                    \/ call[c].kind = "metadata" /\ l = "told"
                    \/ call[c].kind \in {"rows", "export"} /\ l = "open"
                    \/ call[c].kind = "rows" /\ l = "told"
                    \/ call[c].kind = "export" /\ l = "write"
      BY <1>1, <1>2, WithMetadataIs DEF IInv, Note
    <2>2. metadata' \in BOOLEAN
      BY <1>2 DEF Note
    <2> QED
      BY <1>1, <2>1, <2>2, CallFacts, GotoKeeps
  <1>3. CASE ~call[c].found
    <2>1. Goto(c, "missing") /\ metadata' = metadata
      BY <1>3 DEF Note
    <2>2. ~(call[c].own /\ ~deleting)
      BY <1>1, <1>3, CallFacts DEF StoresAgree
    <2> QED
      BY <1>1, <2>1, <2>2, CallFacts, GotoKeeps DEF PCs
  <1> QED
    BY <1>2, <1>3

LEMMA OpenIInv ==
    ASSUME IInv, NEW c \in Calls, Open(c) PROVE IInv'
  <1>1. /\ call[c].pc = "open" /\ call[c].own /\ call[c].kind \in {"rows", "export"}
        /\ UNCHANGED <<bundle, listed, disk, row, metadata, files, made, handed, deleting,
                       deleted, calm>>
        /\ handed
    BY CallFacts DEF Open, artifact, StepsOfKind, StoresAgree, IInv, OneUpload
  <1>2. ~deleting => disk
    BY <1>1 DEF IInv, FileThere
  <1>3. CASE disk
    BY <1>1, <1>3, CallFacts, GotoKeeps DEF Open, PCs
  <1>4. CASE ~disk
    BY <1>1, <1>2, <1>4, CallFacts, GotoKeeps DEF Open, PCs
  <1> QED
    BY <1>3, <1>4

LEMMA WithRowsIs ==
    ASSUME NEW c \in Calls
    PROVE  \/ WithRows(c) = "write" /\ call[c].kind = "export"
           \/ WithRows(c) = "told" /\ call[c].kind # "export"
  BY DEF WithRows

LEMMA KeepIInv ==
    ASSUME IInv, NEW c \in Calls, Keep(c) PROVE IInv'
  <1>1. /\ call[c].pc = "keep" /\ call[c].own /\ call[c].kind \in {"rows", "export"}
        /\ UNCHANGED <<bundle, listed, disk, row, metadata, made, handed, deleting,
                       deleted, calm>>
        /\ files' = TRUE /\ Goto(c, WithRows(c))
    BY CallFacts DEF Keep, artifact, StepsOfKind
  <1> QED
    BY <1>1, WithRowsIs, CallFacts, GotoKeeps DEF PCs

LEMMA WriteIInv ==
    ASSUME IInv, ArtifactInv, NEW c \in Calls, Write(c) PROVE IInv'
  <1>1. /\ call[c].pc = "write" /\ call[c].own /\ call[c].kind = "export"
        /\ UNCHANGED <<listed, disk, row, metadata, files, made, handed, deleting,
                       deleted, calm>>
        /\ bundle' = bundle + 1
    BY CallFacts DEF Write, StepsOfKind
  <1>2. bundle' \in Nat
    BY <1>1, FormatsLen DEF ArtifactInv
  <1>3. \E l \in {"list", "write"} : Goto(c, l)
    BY DEF Write
  <1> QED
    BY <1>1, <1>2, <1>3, CallFacts, GotoKeeps DEF PCs

LEMMA ListIInv ==
    ASSUME IInv, NEW c \in Calls, List(c) PROVE IInv'
  <1>1. /\ call[c].pc = "list" /\ call[c].own /\ call[c].kind = "export"
        /\ UNCHANGED <<bundle, disk, row, metadata, files, made, handed, deleting,
                       deleted, calm>>
        /\ listed' = TRUE /\ Goto(c, "told")
    BY CallFacts DEF List, StepsOfKind
  <1> QED
    BY <1>1, CallFacts, GotoKeeps DEF PCs

(* The steps of a deletion: each takes something away, and only after it was   *)
(* asked for.                                                                  *)
LEMMA DeletionKeeps ==
    ASSUME IInv, NEW c \in Calls, NEW l \in {"pop", "remove", "audit"}, Goto(c, l),
           call[c].pc \in {"unlink", "pop", "remove"},
           disk' = FALSE,
           l = "audit" => ~row',
           row' \in BOOLEAN, row' => row,
           call[c].pc = "unlink" \/ ~disk,
           metadata' \in BOOLEAN, files' \in BOOLEAN,
           UNCHANGED <<artifact, made, handed, deleting, deleted, calm>>
    PROVE  IInv'
  <1>1. PICK new \in CallType :
           /\ call' = [call EXCEPT ![c] = new]
           /\ new.pc = l /\ new.kind = call[c].kind /\ new.own = call[c].own
    BY GotoIs DEF IInv, PCs
  <1>2. /\ call[c].kind = "delete" /\ call[c].own /\ deleting /\ handed /\ made # 0
        /\ made \in Nat
    BY CallFacts DEF StepsOfKind, StoresAgree, IInv, OneUpload
  <1>3. StepsOfKind(new) /\ StoresAgree(new)'
    BY <1>1, <1>2, FileStoreAssumption DEF StepsOfKind, StoresAgree, Kinds
  <1>4. FileThere'
    BY <1>2 DEF IInv, FileThere
  <1> QED
    BY <1>1, <1>2, <1>3, <1>4, CallFacts, StepKeeps DEF artifact

LEMMA UnlinkIInv ==
    ASSUME IInv, NEW c \in Calls, Unlink(c) PROVE IInv'
  BY CallFacts, DeletionKeeps DEF Unlink

LEMMA PopIInv ==
    ASSUME IInv, NEW c \in Calls, Pop(c) PROVE IInv'
  <1>1. ~disk
    BY CallFacts DEF Pop, StoresAgree
  <1> QED
    BY <1>1, CallFacts, DeletionKeeps DEF Pop

LEMMA RemoveIInv ==
    ASSUME IInv, NEW c \in Calls, Remove(c) PROVE IInv'
  <1>1. ~disk
    BY CallFacts DEF Remove, StoresAgree
  <1> QED
    BY <1>1, CallFacts, DeletionKeeps DEF Remove

LEMMA AuditIInv ==
    ASSUME IInv, NEW c \in Calls, Audit(c) PROVE IInv'
  <1>1. /\ call[c].pc = "audit" /\ call[c].kind = "delete" /\ ~disk /\ ~row /\ handed
        /\ UNCHANGED <<bundle, listed, disk, row, metadata, files, made, handed, deleting, calm>>
        /\ deleted' = TRUE /\ made # 0 /\ made \in Nat
    BY CallFacts DEF Audit, artifact, StepsOfKind, StoresAgree, IInv, OneUpload
  <1>2. FileThere'
    BY <1>1 DEF IInv, FileThere
  <1>3. Idle.kind # "upload"
    BY FileStoreAssumption DEF Idle, Kinds
  <1>4. call' = [call EXCEPT ![c] = Idle]
    BY DEF Audit, Finish
  <1> QED
    BY <1>1, <1>2, <1>3, <1>4, IdleTyped, IdleAgrees, CallFacts, StepKeeps

LEMMA EndIInv ==
    ASSUME IInv, NEW c \in Calls, Return(c) \/ Stop(c) PROVE IInv'
  <1>1. /\ call[c].pc # "idle" /\ Finish(c)
        /\ UNCHANGED <<bundle, listed, disk, row, metadata, files, made, handed, deleting,
                       deleted, calm>>
    BY DEF Return, Stop, Active, artifact
  <1> QED
    BY <1>1, CallFacts, FinishKeeps

LEMMA RestartIInv ==
    ASSUME IInv, Restart PROVE IInv'
  <1>1. /\ \A c \in Calls : call'[c] = Idle
        /\ UNCHANGED <<disk, row, handed, deleting, deleted, made>>
    BY DEF Restart
  <1>2. Typed'
    BY IdleTyped DEF Restart, IInv, Typed, artifact
  <1>3. ASSUME NEW c \in Calls PROVE StepsOfKind(call'[c]) /\ StoresAgree(call[c])'
    BY <1>1, IdleTyped, IdleAgrees
  <1>4. FileThere' /\ OneUpload'
    BY <1>1, FileStoreAssumption DEF IInv, FileThere, OneUpload, Idle, Kinds
  <1> QED
    BY <1>2, <1>3, <1>4 DEF IInv

-----------------------------------------------------------------------------
(* The export is one call: others neither become exports nor touch its files.  *)
LEMMA ArtifactStep ==
    ASSUME IInv, ArtifactInv, NEW c \in Calls, NEW new,
           call' = [call EXCEPT ![c] = new],
           new.kind = "export" => \A d \in Calls \ {c} : call[d].kind # "export",
           \/ UNCHANGED artifact
           \/ \A d \in Calls \ {c} : call[d].kind # "export",
           new.kind = "export" => /\ bundle' # None
                                  /\ new.pc # "told" => ~listed'
                                  /\ new.pc = "told" => listed'
                                  /\ new.pc \notin {"list", "told"}
                                        => bundle' \in 0..(Len(Formats) - 1),
           new.pc = "list" => bundle' = Len(Formats),
           listed' => bundle' = Len(Formats)
    PROVE  ArtifactInv'
  <1>1. /\ call'[c] = new
        /\ \A d \in Calls \ {c} : call'[d] = call[d]
    BY DEF IInv, Typed
  <1>2. ASSUME NEW d \in Calls \ {c}, call[d].pc = "list" PROVE call[d].kind = "export"
    BY <1>2 DEF IInv, StepsOfKind
  <1> QED
    BY <1>1, <1>2 DEF ArtifactInv, ArtifactIsWhole, artifact

(* A call that goes on, and leaves the artifact alone.                         *)
LEMMA GotoArtifact ==
    ASSUME IInv, ArtifactInv, NEW c \in Calls, NEW l \in PCs \ {"list"}, Goto(c, l),
           call[c].kind = "export" => /\ call[c].pc \notin {"list", "told"}
                                      /\ l # "told",
           UNCHANGED artifact
    PROVE  ArtifactInv'
  <1>1. PICK new \in CallType :
           /\ call' = [call EXCEPT ![c] = new]
           /\ new.pc = l /\ new.kind = call[c].kind
    BY GotoIs DEF IInv
  <1> QED
    BY <1>1, ArtifactStep DEF ArtifactInv, ArtifactIsWhole, artifact

LEMMA FinishArtifact ==
    ASSUME IInv, ArtifactInv, NEW c \in Calls, Finish(c), UNCHANGED artifact
    PROVE  ArtifactInv'
  <1>1. Idle.pc = "idle" /\ Idle.kind # "export"
    BY FileStoreAssumption DEF Idle, Kinds
  <1> QED
    BY <1>1, ArtifactStep DEF Finish, ArtifactInv, ArtifactIsWhole, artifact

LEMMA UploadArtifact ==
    ASSUME IInv, ArtifactInv, NEW c \in Calls, Upload(c) PROVE ArtifactInv'
  <1>1. UNCHANGED artifact
    BY DEF Upload
  <1>2. CASE UNCHANGED call
    BY <1>1, <1>2 DEF ArtifactInv, ArtifactIsWhole, artifact
  <1>3. CASE call' = [call EXCEPT ![c] = [Idle EXCEPT !.pc = "store", !.kind = "upload"]]
    <2>1. PICK new : new = [Idle EXCEPT !.pc = "store", !.kind = "upload"]
      OBVIOUS
    <2>2. new.kind = "upload" /\ new.pc = "store"
      BY <2>1 DEF Idle
    <2>3. call' = [call EXCEPT ![c] = new]
      BY <1>3, <2>1
    <2> QED
      BY <1>1, <2>2, <2>3, ArtifactStep DEF ArtifactInv, ArtifactIsWhole, artifact
  <1> QED
    BY <1>2, <1>3 DEF Upload

LEMMA RequestArtifact ==
    ASSUME IInv, ArtifactInv, NEW c \in Calls, Request(c) PROVE ArtifactInv'
  <1>1. PICK kind \in {"metadata", "rows", "export", "delete"}, own \in BOOLEAN :
           /\ kind = "export" => bundle = None
           /\ bundle' = IF kind = "export" THEN 0 ELSE bundle
           /\ call' = [call EXCEPT ![c] = [Idle EXCEPT !.pc = "ask", !.kind = kind,
                                                       !.own = own, !.after = deleted]]
    BY DEF Request
  <1>2. PICK new : new = [Idle EXCEPT !.pc = "ask", !.kind = kind, !.own = own,
                                      !.after = deleted]
    OBVIOUS
  <1>3. new.pc = "ask" /\ new.kind = kind
    BY <1>2 DEF Idle
  <1>4. call' = [call EXCEPT ![c] = new] /\ listed' = listed
    BY <1>1, <1>2 DEF Request
  <1>5. CASE kind = "export"
    <2>1. \A d \in Calls : call[d].kind # "export"
      BY <1>1, <1>5 DEF ArtifactInv
    <2>2. bundle' = 0 /\ ~listed
      BY <1>1, <1>5, FormatsLen, FileStoreAssumption DEF ArtifactInv, ArtifactIsWhole
    <2>3. bundle' # None /\ bundle' \in 0..(Len(Formats) - 1)
      BY <2>2, FormatsLen, FileStoreAssumption
    <2> QED
      BY <1>3, <1>4, <2>1, <2>2, <2>3, ArtifactStep
  <1>6. CASE kind # "export"
    BY <1>1, <1>3, <1>4, <1>6, ArtifactStep DEF ArtifactInv, ArtifactIsWhole, artifact
  <1> QED
    BY <1>5, <1>6

LEMMA SelectArtifact ==
    ASSUME IInv, ArtifactInv, NEW c \in Calls, Select(c) PROVE ArtifactInv'
  <1>1. call[c] \in CallType /\ call[c].pc = "select" /\ UNCHANGED artifact
    BY CallFacts DEF Select
  <1>2. PICK new : new = [call[c] EXCEPT !.pc = "note", !.found = row /\ call[c].own]
    OBVIOUS
  <1>3. new.pc = "note" /\ new.kind = call[c].kind
    BY <1>1, <1>2 DEF CallType
  <1>4. call' = [call EXCEPT ![c] = new]
    BY <1>2 DEF Select
  <1> QED
    BY <1>1, <1>3, <1>4, ArtifactStep DEF ArtifactInv, ArtifactIsWhole, artifact

LEMMA WriteArtifact ==
    ASSUME IInv, ArtifactInv, NEW c \in Calls, Write(c) PROVE ArtifactInv'
  <1>1. /\ call[c].pc = "write" /\ call[c].kind = "export" /\ ~listed /\ listed' = listed
        /\ bundle \in 0..(Len(Formats) - 1) /\ bundle' = bundle + 1
        /\ \A d \in Calls \ {c} : call[d].kind # "export"
    BY CallFacts DEF Write, StepsOfKind, ArtifactInv
  <1>2. PICK l \in PCs : /\ Goto(c, l)
                         /\ l = IF bundle' = Len(Formats) THEN "list" ELSE "write"
    BY DEF Write, PCs
  <1>3. PICK new \in CallType :
           /\ call' = [call EXCEPT ![c] = new]
           /\ new.pc = l /\ new.kind = call[c].kind
    BY <1>2, GotoIs DEF IInv
  <1>4. bundle' # None /\ (l # "list" => bundle' \in 0..(Len(Formats) - 1))
    BY <1>1, <1>2, FormatsLen, FileStoreAssumption
  <1>5. /\ l = "list" => bundle' = Len(Formats)
        /\ l # "told" /\ ~listed'
    BY <1>1, <1>2
  <1> QED
    BY <1>1, <1>3, <1>4, <1>5, ArtifactStep

LEMMA ListArtifact ==
    ASSUME IInv, ArtifactInv, NEW c \in Calls, List(c) PROVE ArtifactInv'
  <1>1. /\ call[c].pc = "list" /\ call[c].kind = "export"
        /\ listed' = TRUE /\ bundle' = bundle /\ bundle = Len(Formats) /\ bundle # None
        /\ \A d \in Calls \ {c} : call[d].kind # "export"
    BY CallFacts DEF List, StepsOfKind, ArtifactInv
  <1>2. PICK new \in CallType :
           /\ call' = [call EXCEPT ![c] = new]
           /\ new.pc = "told" /\ new.kind = call[c].kind
    BY GotoIs DEF IInv, List, PCs
  <1> QED
    BY <1>1, <1>2, ArtifactStep

(* The steps that come before an export writes, or are not of an export.       *)
LEMMA MetadataArtifact ==
    ASSUME IInv, ArtifactInv, NEW c \in Calls, UNCHANGED artifact,
           call[c].kind \in Kinds \ {"upload"}, call[c].pc \in {"ask", "note"},
           WithMetadata(c)
    PROVE  ArtifactInv'
  <1>1. PICK l \in PCs : /\ Goto(c, l)
                         /\ l # "list"
                         /\ call[c].kind = "export" => l # "told"
    BY WithMetadataIs DEF IInv
  <1> QED
    BY <1>1, GotoArtifact

LEMMA NextArtifact ==
    ASSUME IInv, ArtifactInv, [Next]_vars PROVE ArtifactInv'
  <1>1. CASE UNCHANGED vars
    BY <1>1 DEF vars, artifact, ArtifactInv, ArtifactIsWhole
  <1>2. CASE Restart
    <2>1. \A c \in Calls : call'[c].pc = "idle" /\ call'[c].kind = None
      BY <1>2 DEF Restart, Idle
    <2> QED
      BY <1>2, <2>1, FileStoreAssumption
      DEF Restart, ArtifactInv, ArtifactIsWhole, artifact, Kinds
  <1>3. ASSUME NEW c \in Calls, Store(c) \/ Unlink(c) \/ Pop(c) \/ Remove(c)
        PROVE  ArtifactInv'
    <2>1. call[c].kind # "export" /\ UNCHANGED artifact
      BY <1>3, CallFacts DEF Store, Unlink, Pop, Remove, StepsOfKind
    <2>2. \E l \in {"save", "pop", "remove", "audit"} : Goto(c, l)
      BY <1>3 DEF Store, Unlink, Pop, Remove
    <2> QED
      BY <2>1, <2>2, GotoArtifact DEF PCs
  <1>4. ASSUME NEW c \in Calls, Save(c) \/ Audit(c) \/ Return(c) \/ Stop(c)
        PROVE  ArtifactInv'
    BY <1>4, FinishArtifact DEF Save, Audit, Return, Stop
  <1>5. ASSUME NEW c \in Calls, Ask(c) \/ Note(c) PROVE ArtifactInv'
    <2>1. /\ call[c].pc \in {"ask", "note"} /\ UNCHANGED artifact
          /\ call[c].kind \in Kinds \ {"upload"}
      BY <1>5, CallFacts DEF Ask, Note, StepsOfKind, CallType
    <2>2. WithMetadata(c) \/ Goto(c, "select") \/ Goto(c, "missing")
      BY <1>5 DEF Ask, Note
    <2> QED
      BY <2>1, <2>2, MetadataArtifact, GotoArtifact DEF PCs
  <1>6. ASSUME NEW c \in Calls, Open(c) PROVE ArtifactInv'
    BY <1>6, GotoArtifact DEF Open, PCs
  <1>7. ASSUME NEW c \in Calls, Keep(c) PROVE ArtifactInv'
    BY <1>7, WithRowsIs, GotoArtifact DEF Keep, PCs
  <1> QED
    BY <1>1, <1>2, <1>3, <1>4, <1>5, <1>6, <1>7, UploadArtifact, RequestArtifact,
       SelectArtifact, WriteArtifact, ListArtifact DEF Next

LEMMA NextIInv ==
    ASSUME IInv, ArtifactInv, [Next]_vars PROVE IInv'
  <1>1. CASE UNCHANGED vars
    BY <1>1 DEF vars, IInv, Typed, StepsOfKind, StoresAgree, FileThere, OneUpload
  <1> QED
    BY <1>1, UploadIInv, StoreIInv, SaveIInv, RequestIInv, AskIInv, SelectIInv, NoteIInv,
       OpenIInv, KeepIInv, WriteIInv, ListIInv, UnlinkIInv, PopIInv, RemoveIInv,
       AuditIInv, EndIInv, RestartIInv DEF Next

LEMMA InvariantHolds == Spec => [](IInv /\ ArtifactInv)
  <1>1. Init => ArtifactInv
    <2> SUFFICES ASSUME Init PROVE ArtifactInv
      OBVIOUS
    <2>1. \A c \in Calls : call[c].pc = "idle" /\ call[c].kind = None
      BY DEF Init, Idle
    <2> QED
      BY <2>1, FileStoreAssumption DEF Init, ArtifactInv, ArtifactIsWhole, Kinds
  <1> QED
    BY <1>1, InitIInv, NextIInv, NextArtifact, PTL DEF Spec

(* A file whose upload was answered is there for its tenant until a deletion   *)
(* is asked for: across restarts and whatever other calls do, no request is    *)
(* refused or fails.                                                           *)
THEOREM UploadsAreDurable == Spec => []UploadIsDurable
  <1>1. IInv => UploadIsDurable
    BY DEF IInv, FileThere, StoresAgree, UploadIsDurable
  <1> QED
    BY <1>1, InvariantHolds, PTL

(* What was handed out and is still on disk has its row: a deletion cut short  *)
(* at any step can be repeated.                                                *)
THEOREM BytesHaveTheirRow == Spec => []NoOrphanedBytes
  <1>1. IInv => NoOrphanedBytes
    BY DEF IInv, FileThere, NoOrphanedBytes
  <1> QED
    BY <1>1, InvariantHolds, PTL

(* A request by another tenant never learns anything of the file and never     *)
(* deletes it, whatever the dictionaries all tenants share hold.               *)
THEOREM TenantsAreApart == Spec => []OtherTenantsFindNothing
  <1>1. IInv => OtherTenantsFindNothing
    BY DEF IInv, StepsOfKind, OtherTenantsFindNothing
  <1> QED
    BY <1>1, InvariantHolds, PTL

(* An artifact is listed, and its export answers, only with all its files.     *)
THEOREM ArtifactsAreWhole == Spec => []ArtifactIsWhole
  <1>1. ArtifactInv => ArtifactIsWhole
    BY DEF ArtifactInv
  <1> QED
    BY <1>1, InvariantHolds, PTL

-----------------------------------------------------------------------------
(* A step of one call, with no other beside a deletion: only a step of a call  *)
(* in progress fills memory.                                                   *)
LEMMA CalmStep ==
    ASSUME IInv, CalmInv, NEW c \in Calls, NEW new,
           call' = [call EXCEPT ![c] = new],
           new.after => deleted',
           deleted => deleted',
           calm' => calm,
           calm' => \A d \in Calls \ {c} :
                       /\ call[d].kind = "delete" => new.pc = "idle"
                       /\ new.kind = "delete" => call[d].pc = "idle",
           calm' /\ deleted' => deleted \/ \A d \in Calls \ {c} : call[d].pc = "idle",
           call[c].pc = "idle" => (metadata' => metadata) /\ (files' => files),
           calm' /\ (new.pc \in {"remove", "audit"} \/ deleted') => ~metadata' /\ ~files',
           calm' /\ deleted' => /\ new.pc \in {"idle", "ask", "select", "note", "missing"}
                                /\ new.pc = "note" => ~new.found
    PROVE  CalmInv'
  <1>1. /\ call'[c] = new
        /\ \A d \in Calls \ {c} : call'[d] = call[d]
    BY DEF IInv, Typed
  <1>2. ASSUME calm', NEW d \in Calls \ {c}, call[d].pc \in {"remove", "audit"}
        PROVE  ~metadata' /\ ~files'
    <2>1. call[d].kind = "delete"
      BY <1>2 DEF IInv, StepsOfKind
    <2>2. call[c].pc = "idle"
      BY <1>2, <2>1 DEF CalmInv
    <2> QED
      BY <1>2, <2>2 DEF CalmInv
  <1>3. \A d \in Calls : call'[d].after => deleted'
    BY <1>1 DEF CalmInv
  <1>4. calm' => \A d, e \in Calls : call'[d].kind = "delete" /\ e # d => call'[e].pc = "idle"
    BY <1>1 DEF CalmInv
  <1>5. calm' => \A d \in Calls : call'[d].pc \in {"remove", "audit"} => ~metadata' /\ ~files'
    BY <1>1, <1>2
  <1>6. calm' /\ deleted' =>
           \A d \in Calls : /\ call'[d].pc \in {"idle", "ask", "select", "note", "missing"}
                            /\ call'[d].pc = "note" => ~call'[d].found
    BY <1>1 DEF CalmInv
  <1> QED
    BY <1>3, <1>4, <1>5, <1>6 DEF CalmInv

(* A call that goes on is of the kind it was.                                  *)
LEMMA MoveCalm ==
    ASSUME IInv, CalmInv, NEW c \in Calls, NEW new,
           call' = [call EXCEPT ![c] = new],
           call[c].pc # "idle", new.kind = call[c].kind, new.after = call[c].after,
           UNCHANGED <<calm, deleted>>,
           calm /\ (new.pc \in {"remove", "audit"} \/ deleted) => ~metadata' /\ ~files',
           calm /\ deleted => /\ new.pc \in {"idle", "ask", "select", "note", "missing"}
                              /\ new.pc = "note" => ~new.found
    PROVE  CalmInv'
  <1>1. calm => \A d \in Calls \ {c} :
                   /\ call[d].kind # "delete"
                   /\ new.kind = "delete" => call[d].pc = "idle"
    BY DEF CalmInv
  <1>2. new.after => deleted
    BY DEF CalmInv
  <1> QED
    BY <1>1, <1>2, CalmStep

LEMMA GotoCalm ==
    ASSUME IInv, CalmInv, NEW c \in Calls, NEW l \in PCs, Goto(c, l),
           call[c].pc # "idle",
           UNCHANGED <<calm, deleted>>,
           calm /\ (l \in {"remove", "audit"} \/ deleted) => ~metadata' /\ ~files',
           calm /\ deleted => l \in {"select", "missing"}
    PROVE  CalmInv'
  <1>1. PICK new \in CallType :
           /\ call' = [call EXCEPT ![c] = new]
           /\ new.pc = l /\ new.kind = call[c].kind /\ new.after = call[c].after
    BY GotoIs DEF IInv
  <1> QED
    BY <1>1, MoveCalm

LEMMA FinishCalm ==
    ASSUME IInv, CalmInv, NEW c \in Calls, Finish(c), call[c].pc # "idle",
           UNCHANGED <<calm, metadata, files>>,
           deleted => deleted',
           deleted' => deleted \/ call[c].pc = "audit"
    PROVE  CalmInv'
  <1>1. Idle.pc = "idle" /\ Idle.kind # "delete" /\ ~Idle.after
    BY FileStoreAssumption DEF Idle, Kinds
  <1>2. call[c].pc = "audit" => call[c].kind = "delete"
    BY DEF IInv, StepsOfKind
  <1>3. calm /\ call[c].pc = "audit" => /\ \A d \in Calls \ {c} : call[d].pc = "idle"
                                        /\ ~metadata /\ ~files
    BY <1>2 DEF CalmInv
  <1>4. calm /\ deleted => ~metadata /\ ~files
    BY DEF CalmInv
  <1>5. call' = [call EXCEPT ![c] = Idle]
    BY DEF Finish
  <1> QED
    BY <1>1, <1>3, <1>4, <1>5, CalmStep

(* After a deletion that nothing ran beside, no call gets to the file.         *)
LEMMA CalmDeleted ==
    ASSUME CalmInv, calm, deleted, NEW c \in Calls
    PROVE  /\ ~metadata /\ ~files
           /\ call[c].pc \in {"idle", "ask", "select", "note", "missing"}
           /\ call[c].pc = "note" => ~call[c].found
  BY DEF CalmInv

LEMMA UploadCalm ==
    ASSUME IInv, CalmInv, NEW c \in Calls, Upload(c) PROVE CalmInv'
  <1>1. /\ UNCHANGED <<metadata, files, deleted, calm>>
        /\ ~deleted
        /\ \A d \in Calls : call[d].pc = "idle"
    BY DEF Upload, IInv, OneUpload, FileThere
  <1>2. CASE UNCHANGED call
    BY <1>1, <1>2 DEF CalmInv
  <1>3. CASE call' = [call EXCEPT ![c] = [Idle EXCEPT !.pc = "store", !.kind = "upload"]]
    <2>1. PICK new : new = [Idle EXCEPT !.pc = "store", !.kind = "upload"]
      OBVIOUS
    <2>2. new.kind = "upload" /\ new.pc = "store" /\ ~new.after
      BY <2>1 DEF Idle
    <2>3. call' = [call EXCEPT ![c] = new]
      BY <1>3, <2>1
    <2>4. \A d \in Calls : call[d].kind = None
      BY <1>1 DEF IInv, StepsOfKind
    <2> QED
      BY <1>1, <2>2, <2>3, <2>4, FileStoreAssumption, CalmStep DEF Kinds
  <1> QED
    BY <1>2, <1>3 DEF Upload

LEMMA RequestCalm ==
    ASSUME IInv, CalmInv, NEW c \in Calls, Request(c) PROVE CalmInv'
  <1>1. PICK kind \in {"metadata", "rows", "export", "delete"}, own \in BOOLEAN :
           call' = [call EXCEPT ![c] = [Idle EXCEPT !.pc = "ask", !.kind = kind,
                                                    !.own = own, !.after = deleted]]
    BY DEF Request
  <1>2. PICK new : new = [Idle EXCEPT !.pc = "ask", !.kind = kind, !.own = own,
                                      !.after = deleted]
    OBVIOUS
  <1>3. new.pc = "ask" /\ new.kind = kind /\ new.after = deleted
    BY <1>2 DEF Idle
  <1>4. call' = [call EXCEPT ![c] = new]
    BY <1>1, <1>2
  <1>5. call'[c] = new
    BY <1>4 DEF IInv, Typed
  <1>6. /\ UNCHANGED <<metadata, files, deleted>>
        /\ calm' => calm /\ \A d \in Calls \ {c} :
                               call[d].pc # "idle" => "delete" \notin {new.kind, call[d].kind}
    BY <1>5 DEF Request, Active
  <1>7. \A d \in Calls : call[d].pc = "idle" => call[d].kind # "delete"
    BY FileStoreAssumption DEF IInv, StepsOfKind, Kinds
  <1>8. calm /\ deleted => ~metadata /\ ~files
    BY DEF CalmInv
  <1> QED
    BY <1>3, <1>4, <1>6, <1>7, <1>8, CalmStep

LEMMA SelectCalm ==
    ASSUME IInv, CalmInv, NEW c \in Calls, Select(c) PROVE CalmInv'
  <1>1. /\ call[c] \in CallType /\ call[c].pc = "select"
        /\ UNCHANGED <<metadata, files, deleted, calm>>
    BY CallFacts DEF Select
  <1>2. PICK new : new = [call[c] EXCEPT !.pc = "note", !.found = row /\ call[c].own]
    OBVIOUS
  <1>3. /\ new.pc = "note" /\ new.kind = call[c].kind /\ new.after = call[c].after
        /\ new.found = (row /\ call[c].own)
    BY <1>1, <1>2 DEF CallType
  <1>4. call' = [call EXCEPT ![c] = new]
    BY <1>2 DEF Select
  <1>5. deleted => ~new.found
    BY <1>3 DEF IInv, FileThere
  <1>6. calm /\ deleted => ~metadata /\ ~files
    BY DEF CalmInv
  <1> QED
    BY <1>1, <1>3, <1>4, <1>5, <1>6, MoveCalm

LEMMA NoteCalm ==
    ASSUME IInv, CalmInv, NEW c \in Calls, Note(c) PROVE CalmInv'
  <1>1. /\ call[c].pc = "note" /\ UNCHANGED <<files, deleted, calm>>
        /\ call[c].kind \in Kinds \ {"upload"}
    BY CallFacts DEF Note, StepsOfKind, CallType
  <1>2. CASE call[c].found
    <2>1. ~(calm /\ deleted)
      BY <1>1, <1>2, CalmDeleted
    <2>2. PICK l \in PCs \ {"remove", "audit"} : Goto(c, l)
      BY <1>1, <1>2, WithMetadataIs DEF IInv, Note
    <2> QED
      BY <1>1, <2>1, <2>2, GotoCalm
  <1>3. CASE ~call[c].found
    <2>1. Goto(c, "missing") /\ metadata' = metadata
      BY <1>3 DEF Note
    <2> QED
      BY <1>1, <2>1, CalmDeleted, GotoCalm DEF PCs
  <1> QED
    BY <1>2, <1>3

LEMMA AskCalm ==
    ASSUME IInv, CalmInv, NEW c \in Calls, Ask(c) PROVE CalmInv'
  <1>1. /\ call[c].pc = "ask" /\ UNCHANGED <<metadata, files, deleted, calm>>
        /\ call[c].kind \in Kinds \ {"upload"}
    BY CallFacts DEF Ask, StepsOfKind, CallType
  <1>2. CASE metadata
    <2>1. ~(calm /\ deleted)
      BY <1>2, CalmDeleted
    <2>2. PICK l \in PCs \ {"remove", "audit"} : Goto(c, l)
      BY <1>1, <1>2, WithMetadataIs DEF IInv, Ask
    <2> QED
      BY <1>1, <2>1, <2>2, GotoCalm
  <1>3. CASE ~metadata
    BY <1>1, <1>3, CalmDeleted, GotoCalm DEF Ask, PCs
  <1> QED
    BY <1>2, <1>3

LEMMA NextCalm ==
    ASSUME IInv, CalmInv, [Next]_vars PROVE CalmInv'
  <1>1. CASE UNCHANGED vars
    BY <1>1 DEF vars, CalmInv
  <1>2. CASE Restart
    <2>1. \A c \in Calls : call'[c].pc = "idle" /\ call'[c].kind = None /\ ~call'[c].after
      BY <1>2 DEF Restart, Idle
    <2> QED
      BY <1>2, <2>1, FileStoreAssumption DEF Restart, CalmInv, Kinds
  <1>3. ASSUME NEW c \in Calls,
               Store(c) \/ Open(c) \/ Keep(c) \/ Write(c) \/ List(c) \/ Unlink(c)
        PROVE  CalmInv'
    <2>1. ~(calm /\ deleted) /\ call[c].pc # "idle" /\ UNCHANGED <<deleted, calm>>
      BY <1>3, CalmDeleted DEF Store, Open, Keep, Write, List, Unlink
    <2>2. \E l \in {"save", "keep", "broken", "write", "told", "list", "pop"} : Goto(c, l)
      BY <1>3, WithRowsIs DEF Store, Open, Keep, Write, List, Unlink
    <2> QED
      BY <2>1, <2>2, GotoCalm DEF PCs
  <1>4. ASSUME NEW c \in Calls, Pop(c) PROVE CalmInv'
    BY <1>4, CalmDeleted, GotoCalm DEF Pop, PCs
  <1>5. ASSUME NEW c \in Calls, Remove(c) PROVE CalmInv'
    <2>1. calm => ~metadata /\ ~files
      BY <1>5 DEF Remove, CalmInv
    <2> QED
      BY <1>5, <2>1, CalmDeleted, GotoCalm DEF Remove, PCs
  <1>6. ASSUME NEW c \in Calls, Save(c) \/ Audit(c) \/ Return(c) \/ Stop(c)
        PROVE  CalmInv'
    BY <1>6, FinishCalm DEF Save, Audit, Return, Stop, Active
  <1> QED
    BY <1>1, <1>2, <1>3, <1>4, <1>5, <1>6, UploadCalm, RequestCalm, AskCalm, SelectCalm,
       NoteCalm DEF Next

(* After a deletion has answered no request is told anything of the file and   *)
(* none fails on its missing bytes, as long as no call was in progress beside  *)
(* a deletion.                                                                 *)
THEOREM CalmDeletionIsFinal == Spec => []CalmGoneAfterDelete
  <1>1. Init => CalmInv
    <2> SUFFICES ASSUME Init PROVE CalmInv
      OBVIOUS
    <2>1. \A c \in Calls : call[c].pc = "idle" /\ call[c].kind = None /\ ~call[c].after
      BY DEF Init, Idle
    <2> QED
      BY <2>1, FileStoreAssumption DEF Init, CalmInv, Kinds
  <1>2. CalmInv => CalmGoneAfterDelete
    BY DEF CalmInv, CalmGoneAfterDelete
  <1> QED
    BY <1>1, <1>2, InvariantHolds, NextCalm, PTL DEF Spec

=============================================================================
