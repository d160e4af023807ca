-------------------------- MODULE RenderDocProofs --------------------------
(***************************************************************************)
(* Theorems about RenderDoc for any number of renders, names and slots.    *)
(* The inductive invariant says whose call a record belongs to (Records),  *)
(* that what the sweeper has in hand is not in flight (Doomed), that a     *)
(* stopped daemon has nothing under way (Off), and that a document is      *)
(* listed and heard of once (ListedOnce).                                  *)
(***************************************************************************)
EXTENDS RenderDoc, TLAPS, SequenceTheorems

(* A render has a record once its call has a result, and not before.       *)
Records == \A r \in Renders : ledger[r] # "absent" => call[r] \in {"result", "over"}

(* The sweeper chose records of the past: none of them can come back.      *)
Doomed == \A r \in doomed : ledger[r] # "inflight" /\ call[r] \in {"result", "over"}

(* Nothing runs and nothing is remembered while the daemon is off.         *)
Off == up = "off" =>
  /\ turn = "none" /\ thread = {} /\ doomed = {}
  /\ \A r \in Renders : call[r] \in {"none", "over"} /\ ledger[r] = "absent"

(* A result that the stream has not brought yet is kept like one that has  *)
(* been listed.                                                            *)
ResultIsKept ==
  \A r \in Renders : call[r] = "result" => ledger[r] = "inflight" \/ NamesakeCancelled(r)

(* Every document is listed once, after its call, and the owner has heard  *)
(* of those in front of the one being delivered only.                      *)
Told(i) == i <= at \/ (i = at + 1 /\ turn = "mark")
ListedOnce ==
  /\ \A i \in 1..Len(pending) :
       /\ call[pending[i]] = "over"
       /\ \A j \in 1..Len(pending) : i # j => pending[i] # pending[j]
       /\ ~Told(i) => heard[pending[i]] = 0
  /\ \A r \in Renders : call[r] # "over" => heard[r] = 0
  /\ turn \in {"none", "stream"} => at = 0
  /\ turn = "none" => pending = <<>>

IInv == /\ TypeOK /\ Records /\ Doomed /\ Off /\ ResultIsKept /\ ListedOnce
        /\ HeardOnce /\ RecordHasFile /\ AwaitedIsKept

-----------------------------------------------------------------------------
(* Every step keeps the types; a delivery stands at a document of its list.*)
LEMMA TypeStep == IInv /\ [Next]_vars => TypeOK'
<1> SUFFICES ASSUME IInv, [Next]_vars PROVE TypeOK'
  OBVIOUS
<1> USE NameOfAssumption, SlotsAssumption, BoundsAssumption
        DEF IInv, TypeOK, turnVars, sweepVars, lifeVars, ListedOnce, Current
<1>1. ASSUME NEW r \in Renders, Call(r) PROVE TypeOK'
  BY <1>1 DEF Call
<1>2. ASSUME NEW r \in Renders, Refuse(r) PROVE TypeOK'
  BY <1>2 DEF Refuse, Fails
<1>3. ASSUME NEW r \in Renders, TakeSlot(r) PROVE TypeOK'
  BY <1>3 DEF TakeSlot
<1>4. ASSUME NEW r \in Renders, StartWriting(r) PROVE TypeOK'
  BY <1>4 DEF StartWriting
<1>5. ASSUME NEW r \in Renders, ThreadWrites(r) PROVE TypeOK'
  BY <1>5 DEF ThreadWrites
<1>6. ASSUME NEW r \in Renders, Register(r) PROVE TypeOK'
  BY <1>6 DEF Register, Recorded
<1>7. ASSUME NEW r \in Renders, ConverterFails(r) PROVE TypeOK'
  BY <1>7 DEF ConverterFails, Raised, Fails
<1>8. ASSUME NEW r \in Renders, WriterFails(r) PROVE TypeOK'
  BY <1>8 DEF WriterFails, Raised, Fails
<1>9. ASSUME NEW r \in Renders, CallCancelled(r) PROVE TypeOK'
  BY <1>9 DEF CallCancelled, Purge, Open
<1>10. ASSUME NEW r \in Renders, ResultSeen(r) PROVE TypeOK'
  BY <1>10 DEF ResultSeen, Artefact
<1>11. ASSUME NEW r \in Renders, Expire(r) PROVE TypeOK'
  BY <1>11 DEF Expire
<1>12. CASE TurnStarts
  BY <1>12 DEF TurnStarts
<1>13. CASE FlushStarts
  BY <1>13 DEF FlushStarts
<1>14. CASE SendDocument
  BY <1>14 DEF SendDocument
<1>15. CASE Upload
  BY <1>15 DEF Upload, Tell
<1>16. CASE UploadFails
  BY <1>16 DEF UploadFails, Tell
<1>17. CASE Mark
  <2>1. Current \in Renders /\ ledger' \in [Renders -> {"absent", "inflight", "delivered", "expired"}]
    BY <1>17 DEF Mark, Delivered
  <2>2. CASE at + 1 < Len(pending)
    BY <1>17, <2>1, <2>2 DEF Mark
  <2>3. CASE ~(at + 1 < Len(pending))
    BY <1>17, <2>1, <2>3 DEF Mark
  <2>4. QED
    BY <2>2, <2>3
<1>18. CASE NoticeRaises
  BY <1>18 DEF NoticeRaises, Delivered
<1>19. CASE StreamEnds
  BY <1>19 DEF StreamEnds
<1>20. CASE StreamDies
  BY <1>20 DEF StreamDies
<1>21. CASE SweepSnapshot
  BY <1>21 DEF SweepSnapshot, Expired
<1>22. CASE SweepUnlink
  BY <1>22 DEF SweepUnlink
<1>23. CASE SweepPop
  BY <1>23 DEF SweepPop
<1>24. CASE StopDrains
  BY <1>24 DEF StopDrains, Open
<1>25. CASE StopAdapter
  BY <1>25 DEF StopAdapter
<1>26. CASE StopEnds
  BY <1>26 DEF StopEnds, Forget
<1>27. CASE Crash
  BY <1>27 DEF Crash, Forget
<1>28. CASE Boot
  BY <1>28 DEF Boot
<1>29. CASE UNCHANGED vars
  BY <1>29 DEF vars
<1>30. QED
  BY <1>1, <1>2, <1>3, <1>4, <1>5, <1>6, <1>7, <1>8, <1>9, <1>10, <1>11, <1>12, <1>13, <1>14,
     <1>15, <1>16, <1>17, <1>18, <1>19, <1>20, <1>21, <1>22, <1>23, <1>24, <1>25, <1>26, <1>27, <1>28, <1>29
     DEF Next, ToolStep, Deliver, Sweep

(* A call goes on only towards its result, and a record only behind one.   *)
LEMMA RecordsStep == IInv /\ [Next]_vars => (Records /\ Doomed)'
<1> SUFFICES ASSUME IInv, [Next]_vars PROVE (Records /\ Doomed)'
  OBVIOUS
<1> USE NameOfAssumption, SlotsAssumption, BoundsAssumption
        DEF IInv, TypeOK, turnVars, sweepVars, lifeVars, Records, Doomed, Off, Current, SameNameInFlight
<1>1. ASSUME NEW r \in Renders, Call(r) PROVE (Records /\ Doomed)'
  BY <1>1 DEF Call
<1>2. ASSUME NEW r \in Renders, Refuse(r) PROVE (Records /\ Doomed)'
  BY <1>2 DEF Refuse, Fails
<1>3. ASSUME NEW r \in Renders, TakeSlot(r) PROVE (Records /\ Doomed)'
  BY <1>3 DEF TakeSlot
<1>4. ASSUME NEW r \in Renders, StartWriting(r) PROVE (Records /\ Doomed)'
  BY <1>4 DEF StartWriting
<1>5. ASSUME NEW r \in Renders, ThreadWrites(r) PROVE (Records /\ Doomed)'
  BY <1>5 DEF ThreadWrites
<1>6. ASSUME NEW r \in Renders, Register(r) PROVE (Records /\ Doomed)'
  BY <1>6 DEF Register, Recorded
<1>7. ASSUME NEW r \in Renders, ConverterFails(r) PROVE (Records /\ Doomed)'
  BY <1>7 DEF ConverterFails, Raised, Fails
<1>8. ASSUME NEW r \in Renders, WriterFails(r) PROVE (Records /\ Doomed)'
  BY <1>8 DEF WriterFails, Raised, Fails
<1>9. ASSUME NEW r \in Renders, CallCancelled(r) PROVE (Records /\ Doomed)'
  BY <1>9 DEF CallCancelled, Purge, Open
<1>10. ASSUME NEW r \in Renders, ResultSeen(r) PROVE (Records /\ Doomed)'
  BY <1>10 DEF ResultSeen, Artefact
<1>11. ASSUME NEW r \in Renders, Expire(r) PROVE (Records /\ Doomed)'
  BY <1>11 DEF Expire
<1>12. CASE TurnStarts
  BY <1>12 DEF TurnStarts
<1>13. CASE FlushStarts
  BY <1>13 DEF FlushStarts
<1>14. CASE SendDocument
  BY <1>14 DEF SendDocument
<1>15. CASE Upload
  BY <1>15 DEF Upload, Tell
<1>16. CASE UploadFails
  BY <1>16 DEF UploadFails, Tell
<1>17. CASE Mark
  BY <1>17 DEF Mark, Delivered
<1>18. CASE NoticeRaises
  BY <1>18 DEF NoticeRaises, Delivered
<1>19. CASE StreamEnds
  BY <1>19 DEF StreamEnds
<1>20. CASE StreamDies
  BY <1>20 DEF StreamDies
<1>21. CASE SweepSnapshot
  BY <1>21 DEF SweepSnapshot, Expired
<1>22. CASE SweepUnlink
  BY <1>22 DEF SweepUnlink
<1>23. CASE SweepPop
  BY <1>23 DEF SweepPop
<1>24. CASE StopDrains
  BY <1>24 DEF StopDrains, Open
<1>25. CASE StopAdapter
  BY <1>25 DEF StopAdapter
<1>26. CASE StopEnds
  BY <1>26 DEF StopEnds, Forget
<1>27. CASE Crash
  BY <1>27 DEF Crash, Forget
<1>28. CASE Boot
  BY <1>28 DEF Boot
<1>29. CASE UNCHANGED vars
  BY <1>29 DEF vars
<1>30. QED
  BY <1>1, <1>2, <1>3, <1>4, <1>5, <1>6, <1>7, <1>8, <1>9, <1>10, <1>11, <1>12, <1>13, <1>14,
     <1>15, <1>16, <1>17, <1>18, <1>19, <1>20, <1>21, <1>22, <1>23, <1>24, <1>25, <1>26, <1>27, <1>28, <1>29
     DEF Next, ToolStep, Deliver, Sweep

(* What goes on needs a daemon, or something under way.                    *)
LEMMA OffStep == IInv /\ [Next]_vars => Off'
<1> SUFFICES ASSUME IInv, [Next]_vars PROVE Off'
  OBVIOUS
<1> USE NameOfAssumption, SlotsAssumption, BoundsAssumption
        DEF IInv, TypeOK, turnVars, sweepVars, lifeVars, Off
<1>1. ASSUME NEW r \in Renders, Call(r) PROVE Off'
  BY <1>1 DEF Call
<1>2. ASSUME NEW r \in Renders, Refuse(r) PROVE Off'
  BY <1>2 DEF Refuse, Fails
<1>3. ASSUME NEW r \in Renders, TakeSlot(r) PROVE Off'
  BY <1>3 DEF TakeSlot
<1>4. ASSUME NEW r \in Renders, StartWriting(r) PROVE Off'
  BY <1>4 DEF StartWriting
<1>5. ASSUME NEW r \in Renders, ThreadWrites(r) PROVE Off'
  BY <1>5 DEF ThreadWrites
<1>6. ASSUME NEW r \in Renders, Register(r) PROVE Off'
  BY <1>6 DEF Register, Recorded
<1>7. ASSUME NEW r \in Renders, ConverterFails(r) PROVE Off'
  BY <1>7 DEF ConverterFails, Raised, Fails
<1>8. ASSUME NEW r \in Renders, WriterFails(r) PROVE Off'
  BY <1>8 DEF WriterFails, Raised, Fails
<1>9. ASSUME NEW r \in Renders, CallCancelled(r) PROVE Off'
  BY <1>9 DEF CallCancelled, Purge, Open
<1>10. ASSUME NEW r \in Renders, ResultSeen(r) PROVE Off'
  BY <1>10 DEF ResultSeen, Artefact
<1>11. ASSUME NEW r \in Renders, Expire(r) PROVE Off'
  BY <1>11 DEF Expire
<1>12. CASE TurnStarts
  BY <1>12 DEF TurnStarts
<1>13. CASE FlushStarts
  BY <1>13 DEF FlushStarts
<1>14. CASE SendDocument
  BY <1>14 DEF SendDocument
<1>15. CASE Upload
  BY <1>15 DEF Upload, Tell
<1>16. CASE UploadFails
  BY <1>16 DEF UploadFails, Tell
<1>17. CASE Mark
  BY <1>17 DEF Mark, Delivered
<1>18. CASE NoticeRaises
  BY <1>18 DEF NoticeRaises, Delivered
<1>19. CASE StreamEnds
  BY <1>19 DEF StreamEnds
<1>20. CASE StreamDies
  BY <1>20 DEF StreamDies
<1>21. CASE SweepSnapshot
  BY <1>21 DEF SweepSnapshot, Expired
<1>22. CASE SweepUnlink
  BY <1>22 DEF SweepUnlink
<1>23. CASE SweepPop
  BY <1>23 DEF SweepPop
<1>24. CASE StopDrains
  BY <1>24 DEF StopDrains, Open
<1>25. CASE StopAdapter
  BY <1>25 DEF StopAdapter
<1>26. CASE StopEnds
  BY <1>26 DEF StopEnds, Forget
<1>27. CASE Crash
  BY <1>27 DEF Crash, Forget
<1>28. CASE Boot
  BY <1>28 DEF Boot
<1>29. CASE UNCHANGED vars
  BY <1>29 DEF vars
<1>30. QED
  BY <1>1, <1>2, <1>3, <1>4, <1>5, <1>6, <1>7, <1>8, <1>9, <1>10, <1>11, <1>12, <1>13, <1>14,
     <1>15, <1>16, <1>17, <1>18, <1>19, <1>20, <1>21, <1>22, <1>23, <1>24, <1>25, <1>26, <1>27, <1>28, <1>29
     DEF Next, ToolStep, Deliver, Sweep

(* A record in flight goes with the cancellation of a namesake only.       *)
LEMMA ResultStep == IInv /\ [Next]_vars => ResultIsKept'
<1> SUFFICES ASSUME IInv, [Next]_vars PROVE ResultIsKept'
  OBVIOUS
<1> USE NameOfAssumption, SlotsAssumption, BoundsAssumption
        DEF IInv, TypeOK, turnVars, sweepVars, lifeVars,
            Records, Off, ListedOnce, ResultIsKept, NamesakeCancelled, SameNameInFlight, Current
<1>1. ASSUME NEW r \in Renders, Call(r) PROVE ResultIsKept'
  BY <1>1 DEF Call
<1>2. ASSUME NEW r \in Renders, Refuse(r) PROVE ResultIsKept'
  BY <1>2 DEF Refuse, Fails
<1>3. ASSUME NEW r \in Renders, TakeSlot(r) PROVE ResultIsKept'
  BY <1>3 DEF TakeSlot
<1>4. ASSUME NEW r \in Renders, StartWriting(r) PROVE ResultIsKept'
  BY <1>4 DEF StartWriting
<1>5. ASSUME NEW r \in Renders, ThreadWrites(r) PROVE ResultIsKept'
  BY <1>5 DEF ThreadWrites
<1>6. ASSUME NEW r \in Renders, Register(r) PROVE ResultIsKept'
  BY <1>6 DEF Register, Recorded
<1>7. ASSUME NEW r \in Renders, ConverterFails(r) PROVE ResultIsKept'
  BY <1>7 DEF ConverterFails, Raised, Fails
<1>8. ASSUME NEW r \in Renders, WriterFails(r) PROVE ResultIsKept'
  BY <1>8 DEF WriterFails, Raised, Fails
<1>9. ASSUME NEW r \in Renders, CallCancelled(r) PROVE ResultIsKept'
  BY <1>9 DEF CallCancelled, Purge, Open
<1>10. ASSUME NEW r \in Renders, ResultSeen(r) PROVE ResultIsKept'
  BY <1>10 DEF ResultSeen, Artefact
<1>11. ASSUME NEW r \in Renders, Expire(r) PROVE ResultIsKept'
  BY <1>11 DEF Expire
<1>12. CASE TurnStarts
  BY <1>12 DEF TurnStarts
<1>13. CASE FlushStarts
  BY <1>13 DEF FlushStarts
<1>14. CASE SendDocument
  BY <1>14 DEF SendDocument
<1>15. CASE Upload
  BY <1>15 DEF Upload, Tell
<1>16. CASE UploadFails
  BY <1>16 DEF UploadFails, Tell
<1>17. CASE Mark
  BY <1>17 DEF Mark, Delivered
<1>18. CASE NoticeRaises
  BY <1>18 DEF NoticeRaises, Delivered
<1>19. CASE StreamEnds
  BY <1>19 DEF StreamEnds
<1>20. CASE StreamDies
  BY <1>20 DEF StreamDies
<1>21. CASE SweepSnapshot
  BY <1>21 DEF SweepSnapshot, Expired
<1>22. CASE SweepUnlink
  BY <1>22 DEF SweepUnlink
<1>23. CASE SweepPop
  BY <1>23 DEF SweepPop
<1>24. CASE StopDrains
  BY <1>24 DEF StopDrains, Open
<1>25. CASE StopAdapter
  BY <1>25 DEF StopAdapter
<1>26. CASE StopEnds
  BY <1>26 DEF StopEnds, Forget
<1>27. CASE Crash
  BY <1>27 DEF Crash, Forget
<1>28. CASE Boot
  BY <1>28 DEF Boot
<1>29. CASE UNCHANGED vars
  BY <1>29 DEF vars
<1>30. QED
  BY <1>1, <1>2, <1>3, <1>4, <1>5, <1>6, <1>7, <1>8, <1>9, <1>10, <1>11, <1>12, <1>13, <1>14,
     <1>15, <1>16, <1>17, <1>18, <1>19, <1>20, <1>21, <1>22, <1>23, <1>24, <1>25, <1>26, <1>27, <1>28, <1>29
     DEF Next, ToolStep, Deliver, Sweep

(* What the stream brings is not on the list yet, and delivery goes down   *)
(* the list.                                                               *)
LEMMA ListStep == IInv /\ [Next]_vars => (ListedOnce /\ HeardOnce)'
<1> SUFFICES ASSUME IInv, [Next]_vars PROVE (ListedOnce /\ HeardOnce)'
  OBVIOUS
<1> USE NameOfAssumption, SlotsAssumption, BoundsAssumption
        DEF IInv, TypeOK, turnVars, sweepVars, lifeVars,
            Off, ListedOnce, HeardOnce, Told, Current
<1>1. ASSUME NEW r \in Renders, Call(r) PROVE (ListedOnce /\ HeardOnce)'
  BY <1>1 DEF Call
<1>2. ASSUME NEW r \in Renders, Refuse(r) PROVE (ListedOnce /\ HeardOnce)'
  BY <1>2 DEF Refuse, Fails
<1>3. ASSUME NEW r \in Renders, TakeSlot(r) PROVE (ListedOnce /\ HeardOnce)'
  BY <1>3 DEF TakeSlot
<1>4. ASSUME NEW r \in Renders, StartWriting(r) PROVE (ListedOnce /\ HeardOnce)'
  BY <1>4 DEF StartWriting
<1>5. ASSUME NEW r \in Renders, ThreadWrites(r) PROVE (ListedOnce /\ HeardOnce)'
  BY <1>5 DEF ThreadWrites
<1>6. ASSUME NEW r \in Renders, Register(r) PROVE (ListedOnce /\ HeardOnce)'
  BY <1>6 DEF Register, Recorded
<1>7. ASSUME NEW r \in Renders, ConverterFails(r) PROVE (ListedOnce /\ HeardOnce)'
  BY <1>7 DEF ConverterFails, Raised, Fails
<1>8. ASSUME NEW r \in Renders, WriterFails(r) PROVE (ListedOnce /\ HeardOnce)'
  BY <1>8 DEF WriterFails, Raised, Fails
<1>9. ASSUME NEW r \in Renders, CallCancelled(r) PROVE (ListedOnce /\ HeardOnce)'
  BY <1>9 DEF CallCancelled, Purge, Open
<1>10. ASSUME NEW r \in Renders, ResultSeen(r) PROVE (ListedOnce /\ HeardOnce)'
  BY <1>10 DEF ResultSeen, Artefact
<1>11. ASSUME NEW r \in Renders, Expire(r) PROVE (ListedOnce /\ HeardOnce)'
  BY <1>11 DEF Expire
<1>12. CASE TurnStarts
  BY <1>12 DEF TurnStarts
<1>13. CASE FlushStarts
  BY <1>13 DEF FlushStarts
<1>14. CASE SendDocument
  BY <1>14 DEF SendDocument
<1>15. CASE Upload
  BY <1>15 DEF Upload, Tell
<1>16. CASE UploadFails
  <2>1. CASE heard' = heard
    BY <1>16, <2>1 DEF UploadFails
  <2>2. CASE Tell(Current)
    BY <1>16, <2>2 DEF UploadFails, Tell
  <2>3. QED
    BY <1>16, <2>1, <2>2 DEF UploadFails
<1>17. CASE Mark
  BY <1>17 DEF Mark, Delivered
<1>18. CASE NoticeRaises
  BY <1>18 DEF NoticeRaises, Delivered
<1>19. CASE StreamEnds
  BY <1>19 DEF StreamEnds
<1>20. CASE StreamDies
  BY <1>20 DEF StreamDies
<1>21. CASE SweepSnapshot
  BY <1>21 DEF SweepSnapshot, Expired
<1>22. CASE SweepUnlink
  BY <1>22 DEF SweepUnlink
<1>23. CASE SweepPop
  BY <1>23 DEF SweepPop
<1>24. CASE StopDrains
  BY <1>24 DEF StopDrains, Open
<1>25. CASE StopAdapter
  BY <1>25 DEF StopAdapter
<1>26. CASE StopEnds
  BY <1>26 DEF StopEnds, Forget
<1>27. CASE Crash
  BY <1>27 DEF Crash, Forget
<1>28. CASE Boot
  BY <1>28 DEF Boot
<1>29. CASE UNCHANGED vars
  BY <1>29 DEF vars
<1>30. QED
  BY <1>1, <1>2, <1>3, <1>4, <1>5, <1>6, <1>7, <1>8, <1>9, <1>10, <1>11, <1>12, <1>13, <1>14,
     <1>15, <1>16, <1>17, <1>18, <1>19, <1>20, <1>21, <1>22, <1>23, <1>24, <1>25, <1>26, <1>27, <1>28, <1>29
     DEF Next, ToolStep, Deliver, Sweep

(* Nobody unlinks a file whose record is in flight and stays.              *)
LEMMA FileStep == IInv /\ [Next]_vars => RecordHasFile'
<1> SUFFICES ASSUME IInv, [Next]_vars PROVE RecordHasFile'
  OBVIOUS
<1> USE NameOfAssumption, SlotsAssumption, BoundsAssumption
        DEF IInv, TypeOK, turnVars, sweepVars, lifeVars,
            Records, Doomed, Off, RecordHasFile, SameNameInFlight, Current
<1>1. ASSUME NEW r \in Renders, Call(r) PROVE RecordHasFile'
  BY <1>1 DEF Call
<1>2. ASSUME NEW r \in Renders, Refuse(r) PROVE RecordHasFile'
  BY <1>2 DEF Refuse, Fails
<1>3. ASSUME NEW r \in Renders, TakeSlot(r) PROVE RecordHasFile'
  BY <1>3 DEF TakeSlot
<1>4. ASSUME NEW r \in Renders, StartWriting(r) PROVE RecordHasFile'
  BY <1>4 DEF StartWriting
<1>5. ASSUME NEW r \in Renders, ThreadWrites(r) PROVE RecordHasFile'
  BY <1>5 DEF ThreadWrites
<1>6. ASSUME NEW r \in Renders, Register(r) PROVE RecordHasFile'
  BY <1>6 DEF Register, Recorded
<1>7. ASSUME NEW r \in Renders, ConverterFails(r) PROVE RecordHasFile'
  BY <1>7 DEF ConverterFails, Raised, Fails
<1>8. ASSUME NEW r \in Renders, WriterFails(r) PROVE RecordHasFile'
  BY <1>8 DEF WriterFails, Raised, Fails
<1>9. ASSUME NEW r \in Renders, CallCancelled(r) PROVE RecordHasFile'
  BY <1>9 DEF CallCancelled, Purge, Open
<1>10. ASSUME NEW r \in Renders, ResultSeen(r) PROVE RecordHasFile'
  BY <1>10 DEF ResultSeen, Artefact
<1>11. ASSUME NEW r \in Renders, Expire(r) PROVE RecordHasFile'
  BY <1>11 DEF Expire
<1>12. CASE TurnStarts
  BY <1>12 DEF TurnStarts
<1>13. CASE FlushStarts
  BY <1>13 DEF FlushStarts
<1>14. CASE SendDocument
  BY <1>14 DEF SendDocument
<1>15. CASE Upload
  BY <1>15 DEF Upload, Tell
<1>16. CASE UploadFails
  BY <1>16 DEF UploadFails, Tell
<1>17. CASE Mark
  BY <1>17 DEF Mark, Delivered
<1>18. CASE NoticeRaises
  BY <1>18 DEF NoticeRaises, Delivered
<1>19. CASE StreamEnds
  BY <1>19 DEF StreamEnds
<1>20. CASE StreamDies
  BY <1>20 DEF StreamDies
<1>21. CASE SweepSnapshot
  BY <1>21 DEF SweepSnapshot, Expired
<1>22. CASE SweepUnlink
  BY <1>22 DEF SweepUnlink
<1>23. CASE SweepPop
  BY <1>23 DEF SweepPop
<1>24. CASE StopDrains
  BY <1>24 DEF StopDrains, Open
<1>25. CASE StopAdapter
  BY <1>25 DEF StopAdapter
<1>26. CASE StopEnds
  BY <1>26 DEF StopEnds, Forget
<1>27. CASE Crash
  BY <1>27 DEF Crash, Forget
<1>28. CASE Boot
  BY <1>28 DEF Boot
<1>29. CASE UNCHANGED vars
  BY <1>29 DEF vars
<1>30. QED
  BY <1>1, <1>2, <1>3, <1>4, <1>5, <1>6, <1>7, <1>8, <1>9, <1>10, <1>11, <1>12, <1>13, <1>14,
     <1>15, <1>16, <1>17, <1>18, <1>19, <1>20, <1>21, <1>22, <1>23, <1>24, <1>25, <1>26, <1>27, <1>28, <1>29
     DEF Next, ToolStep, Deliver, Sweep

(* A listed document stays in flight until it is marked.                   *)
LEMMA AwaitedStep == IInv /\ [Next]_vars => AwaitedIsKept'
<1> SUFFICES ASSUME IInv, [Next]_vars PROVE AwaitedIsKept'
  OBVIOUS
<1> USE NameOfAssumption, SlotsAssumption, BoundsAssumption
        DEF IInv, TypeOK, turnVars, sweepVars, lifeVars,
            Records, Doomed, Off, ResultIsKept, ListedOnce, AwaitedIsKept, Undelivered,
            NamesakeCancelled, SameNameInFlight, Current
<1>1. ASSUME NEW r \in Renders, Call(r) PROVE AwaitedIsKept'
  BY <1>1 DEF Call
<1>2. ASSUME NEW r \in Renders, Refuse(r) PROVE AwaitedIsKept'
  BY <1>2 DEF Refuse, Fails
<1>3. ASSUME NEW r \in Renders, TakeSlot(r) PROVE AwaitedIsKept'
  BY <1>3 DEF TakeSlot
<1>4. ASSUME NEW r \in Renders, StartWriting(r) PROVE AwaitedIsKept'
  BY <1>4 DEF StartWriting
<1>5. ASSUME NEW r \in Renders, ThreadWrites(r) PROVE AwaitedIsKept'
  BY <1>5 DEF ThreadWrites
<1>6. ASSUME NEW r \in Renders, Register(r) PROVE AwaitedIsKept'
  <2>1. call[r] = "writing" /\ ledger' = [ledger EXCEPT ![r] = "inflight"]
        /\ call' = [call EXCEPT ![r] = "result"] /\ Undelivered' = Undelivered
    BY <1>6 DEF Register, Recorded
  <2>2. \A q \in Renders : NamesakeCancelled(q) => NamesakeCancelled(q)'
    BY <2>1
  <2>3. \A q \in Undelivered : q \in Renders
    OBVIOUS
  <2>4. QED
    <3> HIDE DEF Undelivered, NamesakeCancelled, Current
    <3>1. QED
      BY <2>1, <2>2, <2>3
<1>7. ASSUME NEW r \in Renders, ConverterFails(r) PROVE AwaitedIsKept'
  BY <1>7 DEF ConverterFails, Raised, Fails
<1>8. ASSUME NEW r \in Renders, WriterFails(r) PROVE AwaitedIsKept'
  BY <1>8 DEF WriterFails, Raised, Fails
<1>9. ASSUME NEW r \in Renders, CallCancelled(r) PROVE AwaitedIsKept'
  BY <1>9 DEF CallCancelled, Purge, Open
<1>10. ASSUME NEW r \in Renders, ResultSeen(r) PROVE AwaitedIsKept'
  BY <1>10 DEF ResultSeen, Artefact
<1>11. ASSUME NEW r \in Renders, Expire(r) PROVE AwaitedIsKept'
  BY <1>11 DEF Expire
<1>12. CASE TurnStarts
  BY <1>12 DEF TurnStarts
<1>13. CASE FlushStarts
  BY <1>13 DEF FlushStarts
<1>14. CASE SendDocument
  BY <1>14 DEF SendDocument
<1>15. CASE Upload
  BY <1>15 DEF Upload, Tell
<1>16. CASE UploadFails
  BY <1>16 DEF UploadFails, Tell
<1>17. CASE Mark
  <2>1. \A q \in Renders \ {Current} : ledger'[q] = ledger[q]
    BY <1>17 DEF Mark, Delivered
  <2>2. Undelivered' \subseteq Undelivered \ {Current}
    <3>1. CASE at + 1 < Len(pending)
      BY <1>17, <3>1 DEF Mark
    <3>2. CASE ~(at + 1 < Len(pending))
      BY <1>17, <3>2 DEF Mark
    <3>3. QED
      BY <3>1, <3>2
  <2>3. /\ Undelivered \subseteq Renders
        /\ \A q \in Renders : NamesakeCancelled(q) => NamesakeCancelled(q)'
    BY <1>17 DEF Mark
  <2>4. QED
    <3> HIDE DEF Undelivered, NamesakeCancelled, Current
    <3>1. QED
      BY <2>1, <2>2, <2>3
<1>18. CASE NoticeRaises
  BY <1>18 DEF NoticeRaises, Delivered
<1>19. CASE StreamEnds
  BY <1>19 DEF StreamEnds
<1>20. CASE StreamDies
  BY <1>20 DEF StreamDies
<1>21. CASE SweepSnapshot
  BY <1>21 DEF SweepSnapshot, Expired
<1>22. CASE SweepUnlink
  BY <1>22 DEF SweepUnlink
<1>23. CASE SweepPop
  <2>1. /\ Undelivered' = Undelivered /\ Undelivered \subseteq Renders
        /\ \A q \in Renders : NamesakeCancelled(q) => NamesakeCancelled(q)'
        /\ \A q \in Renders : ledger[q] = "inflight" => ledger'[q] = "inflight"
    BY <1>23 DEF SweepPop
  <2>2. QED
    <3> HIDE DEF Undelivered, NamesakeCancelled, Current
    <3>1. QED
      BY <2>1
<1>24. CASE StopDrains
  BY <1>24 DEF StopDrains, Open
<1>25. CASE StopAdapter
  BY <1>25 DEF StopAdapter
<1>26. CASE StopEnds
  BY <1>26 DEF StopEnds, Forget
<1>27. CASE Crash
  BY <1>27 DEF Crash, Forget
<1>28. CASE Boot
  BY <1>28 DEF Boot
<1>29. CASE UNCHANGED vars
  BY <1>29 DEF vars
<1>30. QED
  BY <1>1, <1>2, <1>3, <1>4, <1>5, <1>6, <1>7, <1>8, <1>9, <1>10, <1>11, <1>12, <1>13, <1>14,
     <1>15, <1>16, <1>17, <1>18, <1>19, <1>20, <1>21, <1>22, <1>23, <1>24, <1>25, <1>26, <1>27, <1>28, <1>29
     DEF Next, ToolStep, Deliver, Sweep

-----------------------------------------------------------------------------
(* The inductive invariant, for every set of renders.                      *)
THEOREM Invariant == Spec => []IInv
<1>1. Init => IInv
  BY NameOfAssumption, SlotsAssumption, BoundsAssumption
     DEF Init, IInv, TypeOK, Records, Doomed, Off, ResultIsKept, ListedOnce, HeardOnce,
         RecordHasFile, AwaitedIsKept, Undelivered
<1>2. IInv /\ [Next]_vars => IInv'
  BY TypeStep, RecordsStep, OffStep, ResultStep, ListStep, FileStep, AwaitedStep DEF IInv
<1>3. QED
  BY <1>1, <1>2, PTL DEF Spec

(* Every variable has its type, and a delivery stands at a document.       *)
THEOREM TypeCorrect == Spec => []TypeOK
<1>1. IInv => TypeOK
  BY DEF IInv
<1>2. QED
  BY <1>1, Invariant, PTL

(* A document that waits has its record and its file, unless a namesake's  *)
(* call has been cancelled.                                                *)
THEOREM UndeliveredKept == Spec => []UndeliveredIsThere
<1>1. IInv => UndeliveredIsThere
  BY DEF IInv, UndeliveredIsThere
<1>2. QED
  BY <1>1, Invariant, PTL

(* The owner hears of no document twice.                                   *)
THEOREM HeardAtMostOnce == Spec => []HeardOnce
<1>1. IInv => HeardOnce
  BY DEF IInv
<1>2. QED
  BY <1>1, Invariant, PTL

-----------------------------------------------------------------------------
(* RenderDoc implements Delivery.  What the turn has still to deliver      *)
(* begins at the document it stands at, and the store keeps a document as  *)
(* long as its record is in flight.                                        *)
Left == SubSeq(pending, at + 1, Len(pending))
Kept == {r \in Renders : ledger[r] = "inflight"}

LEMMA LeftIs ==
  ASSUME TypeOK
  PROVE  /\ at = 0 => Left = pending
         /\ at < Len(pending) =>
              /\ Left # <<>> /\ Head(Left) = Current /\ Current \in Renders
              /\ Tail(Left) = SubSeq(pending, at + 2, Len(pending))
<1>1. pending \in Seq(Renders) /\ Len(pending) \in Nat /\ at \in Nat
  BY LenProperties DEF TypeOK
<1>2. ASSUME at = 0 PROVE Left = pending
  BY <1>1, <1>2, SubSeqFull DEF Left
<1>3. ASSUME at < Len(pending)
      PROVE  /\ Left # <<>> /\ Head(Left) = Current /\ Current \in Renders
             /\ Tail(Left) = SubSeq(pending, at + 2, Len(pending))
  <2>1. at + 1 \in 1..Len(pending) /\ Len(pending) \in (at + 1)..Len(pending)
    BY <1>1, <1>3
  <2>2. Head(Left) = pending[at + 1] /\ Tail(Left) = SubSeq(pending, at + 1 + 1, Len(pending))
    BY <1>1, <2>1, HeadTailOfSubSeq DEF Left
  <2>3. Len(Left) # 0
    <3>1. \A i \in (at + 1)..Len(pending) : pending[i] \in Renders
      BY <1>1, ElementOfSeq
    <3>2. Len(Left) = IF at + 1 <= Len(pending) THEN Len(pending) - (at + 1) + 1 ELSE 0
      BY <1>1, <3>1, SubSeqProperties DEF Left
    <3> QED BY <1>1, <1>3, <3>2
  <2>4. at + 1 + 1 = at + 2
    BY <1>1
  <2> QED BY <1>1, <2>1, <2>2, <2>3, <2>4, ElementOfSeq, EmptySeq DEF Current
<1> QED BY <1>2, <1>3

(* The fate of one document.                                               *)
LEMMA BecomesIs ==
  ASSUME TypeOK, NEW r \in Renders, NEW s, call' = [call EXCEPT ![r] = s], NEW f, Fate(r)' = f
  PROVE  Post!Becomes(r, f)
<1>1. \A q \in Renders : q # r => Fate(q)' = Fate(q)
  BY DEF TypeOK, Fate
<1> QED BY <1>1 DEF Post!Becomes

(* What the owner does not notice.                                         *)
LEMMA QuietIs ==
  ASSUME UNCHANGED <<pending, at, heard>>, Kept' = Kept,
         \A r \in Renders : Fate(r)' = Fate(r)
  PROVE  UNCHANGED Post!vars
BY DEF Post!vars, Kept

LEMMA MovesIs ==
  ASSUME TypeOK, NEW r \in Renders, NEW s, call' = [call EXCEPT ![r] = s],
         {call[r], s} \subseteq {"none", "queued", "pandoc", "writing"},
         UNCHANGED <<ledger, pending, at, heard>>
  PROVE  UNCHANGED Post!vars
<1>1. \A q \in Renders : Fate(q)' = Fate(q)
  BY DEF TypeOK, Fate
<1> QED BY <1>1, QuietIs DEF Kept

LEMMA FailsIs ==
  ASSUME TypeOK, NEW r \in Renders, Fails(r), Fate(r) = "new",
         UNCHANGED <<ledger, pending, at, heard>>
  PROVE  Post!Next
<1>1. Fate(r)' = "past"
  BY DEF Fails, Fate, TypeOK
<1>2. Post!Becomes(r, "past")
  BY <1>1, BecomesIs DEF Fails
<1>3. Post!GiveUp(r)
  BY <1>2 DEF Post!GiveUp
<1> QED BY <1>3 DEF Post!Next

LEMMA CancelsIs ==
  ASSUME TypeOK, NEW r \in Renders, CallCancelled(r)
  PROVE  Post!Next
<1>1. /\ call' = [call EXCEPT ![r] = "cancelled"] /\ UNCHANGED <<pending, at, heard>>
      /\ call[r] \in {"queued", "pandoc", "writing"}
  BY DEF CallCancelled, turnVars, Open
<1>2. Fate(r) = "new" /\ Fate(r)' = "past"
  BY <1>1 DEF Fate, TypeOK
<1>3. Post!Becomes(r, "past")
  BY <1>1, <1>2, BecomesIs
<1>4. Kept' \in {Kept, {q \in Kept : NameOf[q] # NameOf[r]}}
  <2>1. CASE UNCHANGED ledger
    BY <2>1 DEF Kept
  <2>2. CASE Purge(r)
    BY <2>2 DEF Purge, SameNameInFlight, Kept, TypeOK
  <2> QED BY <2>1, <2>2 DEF CallCancelled
<1>5. Post!GiveUp(r)
  BY <1>1, <1>2, <1>3, <1>4 DEF Post!GiveUp, Kept
<1> QED BY <1>5 DEF Post!Next

LEMMA MakesIs ==
  ASSUME TypeOK, NEW r \in Renders, Register(r)
  PROVE  Post!Next
<1>1. /\ call' = [call EXCEPT ![r] = "result"] /\ UNCHANGED <<pending, at, heard>>
      /\ call[r] = "writing" /\ ledger' = [ledger EXCEPT ![r] = "inflight"]
  BY DEF Register, turnVars, Recorded
<1>2. Fate(r) = "new" /\ Fate(r)' = "made" /\ Kept' = Kept \cup {r}
  BY <1>1 DEF Fate, TypeOK, Kept
<1>3. Post!Becomes(r, "made")
  BY <1>1, <1>2, BecomesIs
<1>4. Post!Make(r)
  BY <1>1, <1>2, <1>3 DEF Post!Make, Kept
<1> QED BY <1>4 DEF Post!Next

LEMMA ListsIs ==
  ASSUME TypeOK, ListedOnce, NEW r \in Renders, ResultSeen(r)
  PROVE  Post!Next
<1>1. /\ call' = [call EXCEPT ![r] = "over"] /\ UNCHANGED <<ledger, at, heard>>
      /\ call[r] = "result" /\ pending' = Append(pending, r) /\ at = 0
  BY DEF ResultSeen, Artefact, ListedOnce
<1>2. Fate(r) = "made" /\ Fate(r)' = "past"
  BY <1>1 DEF Fate, TypeOK
<1>3. Post!Becomes(r, "past")
  BY <1>1, <1>2, BecomesIs
<1>4. Left' = Append(Left, r)
  <2>1. pending \in Seq(Renders) /\ pending' \in Seq(Renders)
    BY <1>1, AppendProperties DEF TypeOK
  <2> QED BY <1>1, <2>1, LeftIs, SubSeqFull DEF Left
<1>5. Post!List(r)
  BY <1>1, <1>2, <1>3, <1>4 DEF Post!List, Left
<1> QED BY <1>5 DEF Post!Next

(* Delivery.                                                               *)
LEMMA TellsIs ==
  ASSUME TypeOK, ListedOnce, turn = "upload", Tell(Current),
         UNCHANGED <<call, ledger, pending, at>>
  PROVE  Post!Next
<1>1. Left # <<>> /\ Head(Left) = Current /\ Current \in Renders
  BY LeftIs DEF TypeOK
<1>2. heard[Current] = 0
  <2>1. pending \in Seq(Renders) /\ Len(pending) \in Nat /\ at \in Nat /\ at < Len(pending)
    BY LenProperties DEF TypeOK
  <2>2. at + 1 \in 1..Len(pending) /\ ~Told(at + 1)
    BY <2>1 DEF Told
  <2> QED BY <2>2 DEF ListedOnce, Current
<1>3. heard' = [heard EXCEPT ![Current] = 1]
  BY <1>1, <1>2 DEF Tell, TypeOK
<1>4. \A q \in Renders : Fate(q)' = Fate(q)
  BY DEF Fate
<1>5. Post!Tell
  BY <1>1, <1>2, <1>3, <1>4 DEF Post!Tell, Left
<1> QED BY <1>5 DEF Post!Next

LEMMA KeptAfter ==
  ASSUME TypeOK, Current \in Renders, ledger' = Delivered(Current)
  PROVE  Kept' = Kept \ {Current}
BY DEF Delivered, Kept, TypeOK

LEMMA SettlesIs ==
  ASSUME TypeOK, Mark
  PROVE  Post!Next
<1>0. /\ pending \in Seq(Renders) /\ Len(pending) \in Nat /\ at \in Nat /\ at < Len(pending)
      /\ UNCHANGED <<call, heard>>
  BY LenProperties DEF TypeOK, Mark
<1>1. /\ Left # <<>> /\ Head(Left) = Current /\ Current \in Renders
      /\ Tail(Left) = SubSeq(pending, at + 2, Len(pending))
  BY <1>0, LeftIs
<1>2. Kept' = Kept \ {Current}
  BY <1>1, KeptAfter DEF Mark
<1>3. Left' = Tail(Left)
  <2>1. CASE at + 1 < Len(pending)
    <3>1. pending' = pending /\ at' = at + 1 /\ at' + 1 = at + 2
      BY <1>0, <2>1 DEF Mark
    <3> QED BY <1>1, <3>1 DEF Left
  <2>2. CASE ~(at + 1 < Len(pending))
    <3>1. pending' = <<>> /\ at' = 0
      BY <2>2 DEF Mark
    <3>2. Left' = <<>>
      BY <3>1, SubSeqEmpty DEF Left
    <3>3. SubSeq(pending, at + 2, Len(pending)) = <<>>
      BY <1>0, <2>2, SubSeqEmpty
    <3> QED BY <1>1, <3>2, <3>3
  <2> QED BY <2>1, <2>2
<1>4. \A q \in Renders : Fate(q)' = Fate(q)
  BY <1>0 DEF Fate
<1>5. Post!Settle
  BY <1>0, <1>1, <1>2, <1>3, <1>4 DEF Post!Settle, Left, Kept
<1> QED BY <1>5 DEF Post!Next

LEMMA AbandonsIs ==
  ASSUME TypeOK, pending' = <<>>, at' = 0, UNCHANGED <<call, heard>>,
         \/ UNCHANGED ledger
         \/ at < Len(pending) /\ ledger' = Delivered(Current)
  PROVE  Post!Next
<1>1. Left' = <<>>
  BY SubSeqEmpty DEF Left
<1>2. \A q \in Renders : Fate(q)' = Fate(q)
  BY DEF Fate
<1>3. Kept' = Kept \/ (Left # <<>> /\ Kept' = Kept \ {Head(Left)})
  <2>1. CASE UNCHANGED ledger
    BY <2>1 DEF Kept
  <2>2. CASE at < Len(pending) /\ ledger' = Delivered(Current)
    BY <2>2, LeftIs, KeptAfter
  <2> QED BY <2>1, <2>2
<1>4. Post!Abandon
  BY <1>1, <1>2, <1>3 DEF Post!Abandon, Left, Kept
<1> QED BY <1>4 DEF Post!Next

LEMMA ForgetsIs ==
  ASSUME TypeOK, Forget, UNCHANGED heard
  PROVE  Post!Next
<1> DEFINE rs == {r \in Renders : call[r] = "none"}
<1>1. /\ \A r \in Renders : call'[r] = IF call[r] = "none" THEN "none" ELSE "over"
      /\ ledger' = [r \in Renders |-> "absent"] /\ pending' = <<>> /\ at' = 0
  BY DEF Forget
<1>2. Left' = <<>> /\ Kept' = {}
  BY <1>1, SubSeqEmpty DEF Left, Kept
<1>3. /\ rs \in SUBSET {r \in Renders : Fate(r) = "new"}
      /\ \A r \in Renders : Fate(r)' = IF r \in rs THEN "new" ELSE "past"
  BY <1>1 DEF Fate
<1> HIDE DEF rs
<1>4. Post!Die
  BY <1>2, <1>3 DEF Post!Die, Left, Kept
<1> QED BY <1>4 DEF Post!Next

(* The owner gets the documents of a turn in the order of their results,   *)
(* hears of each once, and gets none that the store has let go before its  *)
(* turn, but for a namesake's cancellation, whichever calls, sweeps,       *)
(* failures and deaths come in between.                                    *)
THEOREM RenderDocImplementsDelivery == Spec => DeliverySpec
<1>1. Init => Post!Init
  <2> SUFFICES ASSUME Init PROVE Post!Init
    OBVIOUS
  <2>1. Left = <<>>
    BY SubSeqEmpty DEF Init, Left
  <2>2. (\A r \in Renders : Fate(r) = "new") /\ Kept = {}
    BY DEF Init, Fate, Kept
  <2> QED BY <2>1, <2>2 DEF Init, Post!Init, Left, Kept
<1>2. IInv /\ [Next]_vars => [Post!Next]_(Post!vars)
  <2> SUFFICES ASSUME IInv, [Next]_vars PROVE Post!Next \/ UNCHANGED Post!vars
    OBVIOUS
  <2>0. TypeOK /\ ListedOnce
    BY DEF IInv
  <2>1. ASSUME NEW r \in Renders, Call(r) \/ TakeSlot(r) \/ StartWriting(r)
        PROVE  UNCHANGED Post!vars
    BY <2>0, <2>1, MovesIs DEF Call, TakeSlot, StartWriting, turnVars
  <2>2. ASSUME NEW r \in Renders, Refuse(r) \/ ConverterFails(r) \/ WriterFails(r)
        PROVE  Post!Next
    <3>1. Fails(r) /\ Fate(r) = "new" /\ UNCHANGED <<ledger, pending, at, heard>>
      BY <2>2 DEF Refuse, ConverterFails, WriterFails, Raised, turnVars, Fate
    <3> QED BY <2>0, <3>1, FailsIs
  <2>3. ASSUME NEW r \in Renders, CallCancelled(r) \/ Register(r) \/ ResultSeen(r)
        PROVE  Post!Next
    BY <2>0, <2>3, CancelsIs, MakesIs, ListsIs
  <2>4. CASE Upload \/ UploadFails
    <3>1. turn = "upload" /\ UNCHANGED <<call, ledger, pending, at>>
      BY <2>4 DEF Upload, UploadFails
    <3>2. CASE Tell(Current)
      BY <2>0, <3>1, <3>2, TellsIs
    <3>3. CASE UNCHANGED heard
      <4>1. Kept' = Kept /\ \A r \in Renders : Fate(r)' = Fate(r)
        BY <3>1 DEF Kept, Fate
      <4> QED BY <3>1, <3>3, <4>1, QuietIs
    <3> QED BY <2>4, <3>2, <3>3 DEF Upload, UploadFails
  <2>5. CASE Mark
    BY <2>0, <2>5, SettlesIs
  <2>6. CASE NoticeRaises \/ StreamDies
    BY <2>0, <2>6, AbandonsIs DEF NoticeRaises, StreamDies, TypeOK
  <2>7. CASE StopEnds \/ Crash
    BY <2>0, <2>7, ForgetsIs DEF StopEnds, Crash
  <2>8. CASE TurnStarts
    <3>1. pending = <<>> /\ at = 0
      BY <2>0, <2>8 DEF TurnStarts, ListedOnce
    <3> QED BY <2>8, <3>1, QuietIs DEF TurnStarts, Kept, Fate
  <2>9. CASE FlushStarts \/ SendDocument \/ StreamEnds
    BY <2>0, <2>9, QuietIs DEF FlushStarts, SendDocument, StreamEnds, Kept, Fate, ListedOnce
  <2>10. ASSUME NEW r \in Renders, ThreadWrites(r) \/ Expire(r) PROVE UNCHANGED Post!vars
    <3>1. UNCHANGED <<call, pending, at, heard>>
      BY <2>10 DEF ThreadWrites, Expire, turnVars
    <3>2. Kept' = Kept
      BY <2>0, <2>10 DEF ThreadWrites, Expire, Kept, TypeOK
    <3> QED BY <3>1, <3>2, QuietIs DEF Fate
  <2>11. CASE Sweep
    <3>1. UNCHANGED <<call, pending, at, heard>>
      BY <2>11 DEF Sweep, SweepSnapshot, SweepUnlink, SweepPop, turnVars
    <3>2. Kept' = Kept
      BY <2>0, <2>11 DEF Sweep, SweepSnapshot, SweepUnlink, SweepPop, Kept, TypeOK
    <3> QED BY <3>1, <3>2, QuietIs DEF Fate
  <2>12. CASE StopDrains \/ StopAdapter \/ Boot \/ UNCHANGED vars
    BY <2>12, QuietIs DEF StopDrains, StopAdapter, Boot, vars, turnVars, Kept, Fate
  <2> QED BY <2>1, <2>2, <2>3, <2>4, <2>5, <2>6, <2>7, <2>8, <2>9, <2>10, <2>11, <2>12
          DEF Next, ToolStep, Deliver
<1> QED BY <1>1, <1>2, Invariant, PTL DEF Spec, DeliverySpec, Post!Spec
=============================================================================
