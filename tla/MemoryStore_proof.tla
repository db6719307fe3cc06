------------------------- MODULE MemoryStore_proof -------------------------
(***************************************************************************)
(* Proofs about the memory store, for every set of threads, streams and    *)
(* buffers: the safety properties of MemoryStore.                          *)
(***************************************************************************)
EXTENDS MemoryStore, TLAPS

(* A thread that serves a file serves a stream.                            *)
Serving == \A t \in Threads : pc[t] # "out" => stream[t] \in Streams

(* Where the pointers are, and who may be where.                           *)
ClientsAreOpen ==
    \A t \in clientHandles : pc[t] \in {"open", "reading", "destroy"}

BuffersAreOpen ==
    \A t \in Threads :
       buffer[t] # NoBuffer =>
          pc[t] \in {"sample", "register", "open", "reading", "destroy"}

(* handleMutex: one thread at a time is in CreateHandle ...                *)
OneOpens ==
    \A t, u \in Threads :
       (/\ pc[t] \in {"starting", "sample", "register"}
        /\ pc[u] \in {"starting", "sample", "register"}) => t = u

(* ... so that the stream it starts still has no buffer.                   *)
StartedHaveNone ==
    \A t \in Threads :
       pc[t] = "starting" => streamHandles[stream[t]] = NoBuffer

HeartbeatPlaces ==
    /\ hb = "sleep" => todo = {}
    /\ hb \in {"sleep", "pick"} => current = Nowhere
    /\ hb \in {"filling", "remove"} => current \in Streams \X Buffers

(* A buffer is of one stream, and the heartbeat knows it by that name.     *)
OneStream ==
    \A s, r \in Streams :
       streamHandles[s] # NoBuffer =>
          /\ streamHandles[r] = streamHandles[s] => r = s
          /\ <<r, streamHandles[s]>> \in todo \union {current} => r = s

(* Nothing is known of a buffer that nobody points to.                     *)
FinishedAreUsed == finished \subseteq Used

(* The strengthening.                                                      *)
IInv == /\ TypeOK
        /\ Serving
        /\ ClientsAreOpen
        /\ BuffersAreOpen
        /\ OneOpens
        /\ StartedHaveNone
        /\ HeartbeatPlaces
        /\ OneStream
        /\ FinishedAreUsed
        /\ NoIdleBuffer
        /\ FinishedBuffersLeave

USE NoStreamAssumption, NoBufferAssumption

-----------------------------------------------------------------------------
(* Every action preserves the strengthening.  Each lemma has a step for    *)
(* every conjunct that its action can disturb and one for the others.      *)
(*                                                                         *)
(* Open.  A thread that is waiting is nowhere yet: nothing is disturbed.   *)
LEMMA OpenCallStep ==
  ASSUME IInv, NEW t \in Threads, OpenCall(t)
  PROVE  IInv'
<1>1. TypeOK'
  BY DEF IInv, TypeOK, OpenCall, Go, Places, bufferVars, hbVars, processVars
<1>2. Serving'
  BY DEF IInv, TypeOK, Serving, OpenCall, Go
<1>3. ClientsAreOpen'
  BY DEF IInv, ClientsAreOpen, OpenCall, Go
<1>4. BuffersAreOpen'
  BY DEF IInv, BuffersAreOpen, OpenCall, Go
<1>5. OneOpens'
  BY DEF IInv, OneOpens, OpenCall, Go
<1>6. StartedHaveNone'
  BY DEF IInv, StartedHaveNone, OpenCall, Go, bufferVars
<1>7. NoIdleBuffer'
  BY DEF IInv, NoIdleBuffer, ClientsAreOpen, OpenCall, Go, bufferVars
<1>8. (/\ HeartbeatPlaces
      /\ OneStream
      /\ FinishedAreUsed
      /\ FinishedBuffersLeave)'
  BY DEF IInv, HeartbeatPlaces, OneStream, FinishedAreUsed,
         FinishedBuffersLeave, Used, OpenCall, bufferVars, hbVars, processVars
<1>. QED
  BY <1>1, <1>2, <1>3, <1>4, <1>5, <1>6, <1>7, <1>8 DEF IInv

(* The thread is alone inside handleMutex; it adds itself to those who     *)
(* use the buffer it found.                                                *)
LEMMA LookupStep ==
  ASSUME IInv, NEW t \in Threads, Lookup(t)
  PROVE  IInv'
<1>1. TypeOK'
  BY DEF IInv, TypeOK, Serving, Lookup, Go, Places, bufferVars, hbVars,
         processVars
<1>2. Serving'
  BY DEF IInv, TypeOK, Serving, Lookup, Go
<1>3. ClientsAreOpen'
  BY DEF IInv, TypeOK, ClientsAreOpen, Lookup, Go
<1>4. BuffersAreOpen'
  BY DEF IInv, TypeOK, BuffersAreOpen, Lookup, Go
<1>5. OneOpens'
  BY DEF IInv, TypeOK, OneOpens, Lookup, Go, HandlesLocked
<1>6. StartedHaveNone'
  BY DEF IInv, TypeOK, StartedHaveNone, Lookup, Go, bufferVars
<1>7. FinishedAreUsed'
  BY DEF IInv, TypeOK, FinishedAreUsed, BuffersAreOpen, Lookup, Go, Used,
         bufferVars, hbVars
<1>8. NoIdleBuffer'
  BY DEF IInv, TypeOK, NoIdleBuffer, Lookup, Go, bufferVars
<1>9. (HeartbeatPlaces /\ OneStream /\ FinishedBuffersLeave)'
  BY DEF IInv, HeartbeatPlaces, OneStream, FinishedBuffersLeave, Lookup,
         bufferVars, hbVars, processVars
<1>. QED
  BY <1>1, <1>2, <1>3, <1>4, <1>5, <1>6, <1>7, <1>8, <1>9 DEF IInv

(* The buffer is new: nobody points to it, the heartbeat does not know it  *)
(* and it is not finished; and the thread is on its way to register.       *)
LEMMA StartStreamStep ==
  ASSUME IInv, NEW t \in Threads, StartStream(t)
  PROVE  IInv'
<1>1. TypeOK'
  BY DEF IInv, TypeOK, StartStream, Go, Places, hbVars, processVars
<1>2. Serving'
  BY DEF IInv, Serving, StartStream, Go
<1>3. ClientsAreOpen'
  BY DEF IInv, ClientsAreOpen, StartStream, Go
<1>4. BuffersAreOpen'
  BY DEF IInv, TypeOK, BuffersAreOpen, StartStream, Go
<1>5. OneOpens'
  BY DEF IInv, OneOpens, StartStream, Go
<1>6. StartedHaveNone'
  BY DEF IInv, TypeOK, StartedHaveNone, OneOpens, StartStream, Go
<1>7. OneStream'
  BY DEF IInv, OneStream, StartStream, Used, hbVars
<1>8. FinishedAreUsed'
  BY DEF IInv, TypeOK, FinishedAreUsed, BuffersAreOpen, StartedHaveNone,
         StartStream, Go, Used, hbVars
<1>9. NoIdleBuffer'
  BY DEF IInv, TypeOK, NoIdleBuffer, StartStream, Go
<1>10. FinishedBuffersLeave'
  BY DEF IInv, FinishedBuffersLeave, FinishedAreUsed, StartStream, hbVars
<1>11. HeartbeatPlaces'
  BY DEF IInv, HeartbeatPlaces, StartStream, hbVars, processVars
<1>. QED
  BY <1>1, <1>2, <1>3, <1>4, <1>5, <1>6, <1>7, <1>8, <1>9, <1>10, <1>11 DEF IInv

(* The thread leaves without a buffer.                                     *)
LEMMA StartFailsStep ==
  ASSUME IInv, NEW t \in Threads, StartFails(t)
  PROVE  IInv'
<1>1. TypeOK'
  BY DEF IInv, TypeOK, StartFails, Go, Places, bufferVars, hbVars, processVars
<1>2. Serving'
  BY DEF IInv, TypeOK, Serving, StartFails, Go
<1>3. ClientsAreOpen'
  BY DEF IInv, ClientsAreOpen, StartFails, Go
<1>4. BuffersAreOpen'
  BY DEF IInv, BuffersAreOpen, StartFails, Go
<1>5. OneOpens'
  BY DEF IInv, OneOpens, StartFails, Go
<1>6. StartedHaveNone'
  BY DEF IInv, TypeOK, StartedHaveNone, OneOpens, StartFails, Go
<1>7. NoIdleBuffer'
  BY DEF IInv, NoIdleBuffer, ClientsAreOpen, StartFails, Go, bufferVars
<1>8. (/\ HeartbeatPlaces
      /\ OneStream
      /\ FinishedAreUsed
      /\ FinishedBuffersLeave)'
  BY DEF IInv, HeartbeatPlaces, OneStream, FinishedAreUsed,
         FinishedBuffersLeave, Used, StartFails, bufferVars, hbVars,
         processVars
<1>. QED
  BY <1>1, <1>2, <1>3, <1>4, <1>5, <1>6, <1>7, <1>8 DEF IInv

(* Only the head changes, and where the thread is.                         *)
LEMMA SampleStep ==
  ASSUME IInv, NEW t \in Threads, Sample(t)
  PROVE  IInv'
<1>1. TypeOK'
  BY DEF IInv, TypeOK, Sample, Sampled, Go, Places, HeadPlaces, bufferVars, hbVars,
         processVars
<1>2. Serving'
  BY DEF IInv, Serving, Sample, Go
<1>3. ClientsAreOpen'
  BY DEF IInv, ClientsAreOpen, Sample, Go
<1>4. BuffersAreOpen'
  BY DEF IInv, BuffersAreOpen, Sample, Go
<1>5. OneOpens'
  BY DEF IInv, OneOpens, Sample, Go
<1>6. StartedHaveNone'
  BY DEF IInv, StartedHaveNone, OneOpens, Sample, Go
<1>7. NoIdleBuffer'
  BY DEF IInv, NoIdleBuffer, Sample, Go, bufferVars
<1>8. (/\ HeartbeatPlaces
      /\ OneStream
      /\ FinishedAreUsed
      /\ FinishedBuffersLeave)'
  BY DEF IInv, HeartbeatPlaces, OneStream, FinishedAreUsed,
         FinishedBuffersLeave, Used, Sample, bufferVars, hbVars, processVars
<1>. QED
  BY <1>1, <1>2, <1>3, <1>4, <1>5, <1>6, <1>7, <1>8 DEF IInv

(* The thread has its buffer still, and is now one of its clients.         *)
LEMMA RegisterStep ==
  ASSUME IInv, NEW t \in Threads, Register(t)
  PROVE  IInv'
<1>1. TypeOK'
  BY DEF IInv, TypeOK, Register, Go, Places, bufferVars, hbVars, processVars
<1>2. Serving'
  BY DEF IInv, Serving, Register, Go
<1>3. ClientsAreOpen'
  BY DEF IInv, TypeOK, ClientsAreOpen, Register, Go
<1>4. BuffersAreOpen'
  BY DEF IInv, BuffersAreOpen, Register, Go
<1>5. OneOpens'
  BY DEF IInv, OneOpens, Register, Go
<1>6. StartedHaveNone'
  BY DEF IInv, StartedHaveNone, OneOpens, Register, Go
<1>7. NoIdleBuffer'
  BY DEF IInv, NoIdleBuffer, Register, Go, bufferVars
<1>8. (/\ HeartbeatPlaces
      /\ OneStream
      /\ FinishedAreUsed
      /\ FinishedBuffersLeave)'
  BY DEF IInv, HeartbeatPlaces, OneStream, FinishedAreUsed,
         FinishedBuffersLeave, Used, Register, bufferVars, hbVars, processVars
<1>. QED
  BY <1>1, <1>2, <1>3, <1>4, <1>5, <1>6, <1>7, <1>8 DEF IInv

(* Read and its two outcomes.  A client that reads stays registered.       *)
LEMMA ReadCallStep ==
  ASSUME IInv, NEW t \in Threads, ReadCall(t)
  PROVE  IInv'
<1>1. TypeOK'
  BY DEF IInv, TypeOK, ReadCall, Go, Places, bufferVars, hbVars, processVars
<1>2. Serving'
  BY DEF IInv, Serving, ReadCall, Go
<1>3. ClientsAreOpen'
  BY DEF IInv, ClientsAreOpen, ReadCall, Go
<1>4. BuffersAreOpen'
  BY DEF IInv, BuffersAreOpen, ReadCall, Go
<1>5. OneOpens'
  BY DEF IInv, OneOpens, ReadCall, Go
<1>6. StartedHaveNone'
  BY DEF IInv, StartedHaveNone, ReadCall, Go, bufferVars
<1>7. NoIdleBuffer'
  BY DEF IInv, NoIdleBuffer, ReadCall, Go, bufferVars
<1>8. (/\ HeartbeatPlaces
      /\ OneStream
      /\ FinishedAreUsed
      /\ FinishedBuffersLeave)'
  BY DEF IInv, HeartbeatPlaces, OneStream, FinishedAreUsed,
         FinishedBuffersLeave, Used, ReadCall, bufferVars, hbVars, processVars
<1>. QED
  BY <1>1, <1>2, <1>3, <1>4, <1>5, <1>6, <1>7, <1>8 DEF IInv

(* A client that was told the end stays registered until Destroy.          *)
LEMMA ReadEndsStep ==
  ASSUME IInv, NEW t \in Threads, ReadEnds(t)
  PROVE  IInv'
<1>1. TypeOK'
  BY DEF IInv, TypeOK, ReadEnds, Go, Places, bufferVars, hbVars, processVars
<1>2. Serving'
  BY DEF IInv, Serving, ReadEnds, Go
<1>3. ClientsAreOpen'
  BY DEF IInv, ClientsAreOpen, ReadEnds, Go
<1>4. BuffersAreOpen'
  BY DEF IInv, BuffersAreOpen, ReadEnds, Go
<1>5. OneOpens'
  BY DEF IInv, OneOpens, ReadEnds, Go
<1>6. StartedHaveNone'
  BY DEF IInv, StartedHaveNone, ReadEnds, Go, bufferVars
<1>7. NoIdleBuffer'
  BY DEF IInv, NoIdleBuffer, ReadEnds, Go, bufferVars
<1>8. (/\ HeartbeatPlaces
      /\ OneStream
      /\ FinishedAreUsed
      /\ FinishedBuffersLeave)'
  BY DEF IInv, HeartbeatPlaces, OneStream, FinishedAreUsed,
         FinishedBuffersLeave, Used, ReadEnds, bufferVars, hbVars, processVars
<1>. QED
  BY <1>1, <1>2, <1>3, <1>4, <1>5, <1>6, <1>7, <1>8 DEF IInv

(* Only the head changes, and where the thread is.                         *)
LEMMA ReadCopiesStep ==
  ASSUME IInv, NEW t \in Threads, ReadCopies(t)
  PROVE  IInv'
<1>1. TypeOK'
  BY DEF IInv, TypeOK, ReadCopies, Go, Places, HeadPlaces, Reached, Copied, bufferVars,
         hbVars, processVars
<1>2. Serving'
  BY DEF IInv, Serving, ReadCopies, Go
<1>3. ClientsAreOpen'
  BY DEF IInv, ClientsAreOpen, ReadCopies, Go
<1>4. BuffersAreOpen'
  BY DEF IInv, BuffersAreOpen, ReadCopies, Go
<1>5. OneOpens'
  BY DEF IInv, OneOpens, ReadCopies, Go
<1>6. StartedHaveNone'
  BY DEF IInv, StartedHaveNone, ReadCopies, Go, bufferVars
<1>7. NoIdleBuffer'
  BY DEF IInv, NoIdleBuffer, ReadCopies, Go, bufferVars
<1>8. (/\ HeartbeatPlaces
      /\ OneStream
      /\ FinishedAreUsed
      /\ FinishedBuffersLeave)'
  BY DEF IInv, HeartbeatPlaces, OneStream, FinishedAreUsed,
         FinishedBuffersLeave, Used, ReadCopies, bufferVars, hbVars,
         processVars
<1>. QED
  BY <1>1, <1>2, <1>3, <1>4, <1>5, <1>6, <1>7, <1>8 DEF IInv

(* Close.  The client stays registered until Destroy.                      *)
LEMMA CloseCallStep ==
  ASSUME IInv, NEW t \in Threads, CloseCall(t)
  PROVE  IInv'
<1>1. TypeOK'
  BY DEF IInv, TypeOK, CloseCall, Go, Places, bufferVars, hbVars, processVars
<1>2. Serving'
  BY DEF IInv, Serving, CloseCall, Go
<1>3. ClientsAreOpen'
  BY DEF IInv, ClientsAreOpen, CloseCall, Go
<1>4. BuffersAreOpen'
  BY DEF IInv, BuffersAreOpen, CloseCall, Go
<1>5. OneOpens'
  BY DEF IInv, OneOpens, CloseCall, Go
<1>6. StartedHaveNone'
  BY DEF IInv, StartedHaveNone, CloseCall, Go, bufferVars
<1>7. NoIdleBuffer'
  BY DEF IInv, NoIdleBuffer, CloseCall, Go, bufferVars
<1>8. (/\ HeartbeatPlaces
      /\ OneStream
      /\ FinishedAreUsed
      /\ FinishedBuffersLeave)'
  BY DEF IInv, HeartbeatPlaces, OneStream, FinishedAreUsed,
         FinishedBuffersLeave, Used, CloseCall, bufferVars, hbVars, processVars
<1>. QED
  BY <1>1, <1>2, <1>3, <1>4, <1>5, <1>6, <1>7, <1>8 DEF IInv

(* When no client is left for the stream the thread is on its way to       *)
(* remove its buffer, and may be so in any case.                           *)
LEMMA DestroyStep ==
  ASSUME IInv, NEW t \in Threads, Destroy(t)
  PROVE  IInv'
<1>1. TypeOK'
  BY DEF IInv, TypeOK, Destroy, Go, Places, HeadPlaces, FreeUnused, hbVars,
         processVars
<1>2. Serving'
  BY DEF IInv, TypeOK, Serving, Destroy, Go
<1>3. ClientsAreOpen'
  BY DEF IInv, TypeOK, ClientsAreOpen, Destroy, Go
<1>4. BuffersAreOpen'
  BY DEF IInv, TypeOK, BuffersAreOpen, Destroy, Go
<1>5. OneOpens'
  BY DEF IInv, TypeOK, OneOpens, Destroy, Go
<1>6. StartedHaveNone'
  BY DEF IInv, TypeOK, StartedHaveNone, Destroy, Go
<1>7. FinishedAreUsed'
  BY DEF IInv, FinishedAreUsed, Destroy, FreeUnused
<1>8. NoIdleBuffer'
  BY DEF IInv, TypeOK, NoIdleBuffer, Destroy, Go, Others
<1>9. FinishedBuffersLeave'
  BY DEF IInv, FinishedBuffersLeave, Destroy, FreeUnused, hbVars
<1>10. (HeartbeatPlaces /\ OneStream)'
  BY DEF IInv, HeartbeatPlaces, OneStream, Destroy, hbVars, processVars
<1>. QED
  BY <1>1, <1>2, <1>3, <1>4, <1>5, <1>6, <1>7, <1>8, <1>9, <1>10 DEF IInv

(* The stream is left without a buffer.                                    *)
LEMMA RemoveStep ==
  ASSUME IInv, NEW t \in Threads, Remove(t)
  PROVE  IInv'
<1>1. TypeOK'
  BY DEF IInv, TypeOK, Remove, Go, Places, FreeUnused, hbVars, processVars
<1>2. Serving'
  BY DEF IInv, Serving, Remove, Go
<1>3. ClientsAreOpen'
  BY DEF IInv, ClientsAreOpen, Remove, Go
<1>4. BuffersAreOpen'
  BY DEF IInv, BuffersAreOpen, Remove, Go
<1>5. OneOpens'
  BY DEF IInv, OneOpens, Remove, Go
<1>6. StartedHaveNone'
  BY DEF IInv, StartedHaveNone, Remove, Go
<1>7. OneStream'
  BY DEF IInv, OneStream, Remove, hbVars
<1>8. FinishedAreUsed'
  BY DEF IInv, FinishedAreUsed, Remove, FreeUnused
<1>9. NoIdleBuffer'
  BY DEF IInv, TypeOK, NoIdleBuffer, Remove, Go
<1>10. FinishedBuffersLeave'
  BY DEF IInv, FinishedBuffersLeave, Remove, FreeUnused, hbVars
<1>11. HeartbeatPlaces'
  BY DEF IInv, HeartbeatPlaces, Remove, hbVars, processVars
<1>. QED
  BY <1>1, <1>2, <1>3, <1>4, <1>5, <1>6, <1>7, <1>8, <1>9, <1>10, <1>11 DEF IInv

(* The thread has no pointer by now, so nothing is freed.                  *)
LEMMA CloseReturnStep ==
  ASSUME IInv, NEW t \in Threads, CloseReturn(t)
  PROVE  IInv'
<1>1. TypeOK'
  BY DEF IInv, TypeOK, CloseReturn, Go, Places, bufferVars, hbVars, processVars
<1>2. Serving'
  BY DEF IInv, TypeOK, Serving, CloseReturn, Go
<1>3. ClientsAreOpen'
  BY DEF IInv, ClientsAreOpen, CloseReturn, Go
<1>4. BuffersAreOpen'
  BY DEF IInv, BuffersAreOpen, CloseReturn, Go
<1>5. OneOpens'
  BY DEF IInv, OneOpens, CloseReturn, Go
<1>6. StartedHaveNone'
  BY DEF IInv, StartedHaveNone, CloseReturn, Go, bufferVars
<1>7. NoIdleBuffer'
  BY DEF IInv, NoIdleBuffer, ClientsAreOpen, CloseReturn, Go, bufferVars
<1>8. (/\ HeartbeatPlaces
      /\ OneStream
      /\ FinishedAreUsed
      /\ FinishedBuffersLeave)'
  BY DEF IInv, HeartbeatPlaces, OneStream, FinishedAreUsed,
         FinishedBuffersLeave, Used, CloseReturn, bufferVars, hbVars,
         processVars
<1>. QED
  BY <1>1, <1>2, <1>3, <1>4, <1>5, <1>6, <1>7, <1>8 DEF IInv

-----------------------------------------------------------------------------
(* The heartbeat.  Its copy names every buffer as the container does.      *)
LEMMA SnapshotStep ==
  ASSUME IInv, Snapshot
  PROVE  IInv'
<1>1. TypeOK'
  BY DEF IInv, TypeOK, Snapshot, bufferVars, processVars, threadVars
<1>2. HeartbeatPlaces'
  BY DEF IInv, HeartbeatPlaces, Snapshot
<1>3. OneStream'
  BY DEF IInv, OneStream, Snapshot, bufferVars
<1>4. FinishedAreUsed'
  BY DEF IInv, FinishedAreUsed, HeartbeatPlaces, Snapshot, Used, bufferVars,
         threadVars
<1>5. FinishedBuffersLeave'
  BY DEF IInv, FinishedBuffersLeave, Snapshot, bufferVars
<1>6. (/\ Serving
      /\ ClientsAreOpen
      /\ BuffersAreOpen
      /\ OneOpens
      /\ StartedHaveNone
      /\ NoIdleBuffer)'
  BY DEF IInv, Serving, ClientsAreOpen, BuffersAreOpen, OneOpens,
         StartedHaveNone, NoIdleBuffer, Snapshot, bufferVars, processVars,
         threadVars
<1>. QED
  BY <1>1, <1>2, <1>3, <1>4, <1>5, <1>6 DEF IInv

(* A pair moves out of the copy, and may be freed with it.                 *)
LEMMA PickStep ==
  ASSUME IInv, Pick
  PROVE  IInv'
<1>1. TypeOK'
  BY DEF IInv, TypeOK, Pick, FreeUnused, processVars, threadVars
<1>2. HeartbeatPlaces'
  BY DEF IInv, TypeOK, HeartbeatPlaces, Pick
<1>3. OneStream'
  BY DEF IInv, OneStream, Pick
<1>4. FinishedAreUsed'
  BY DEF IInv, FinishedAreUsed, Pick, FreeUnused
<1>5. FinishedBuffersLeave'
  BY DEF IInv, FinishedBuffersLeave, Pick, FreeUnused
<1>6. (/\ Serving
      /\ ClientsAreOpen
      /\ BuffersAreOpen
      /\ OneOpens
      /\ StartedHaveNone
      /\ NoIdleBuffer)'
  BY DEF IInv, Serving, ClientsAreOpen, BuffersAreOpen, OneOpens,
         StartedHaveNone, NoIdleBuffer, Pick, processVars, threadVars
<1>. QED
  BY <1>1, <1>2, <1>3, <1>4, <1>5, <1>6 DEF IInv

(* The copy is empty.                                                      *)
LEMMA SleepStep ==
  ASSUME IInv, Sleep
  PROVE  IInv'
<1>1. TypeOK'
  BY DEF IInv, TypeOK, Sleep, bufferVars, processVars, threadVars
<1>2. HeartbeatPlaces'
  BY DEF IInv, HeartbeatPlaces, Sleep
<1>3. FinishedBuffersLeave'
  BY DEF IInv, FinishedBuffersLeave, Sleep, bufferVars
<1>4. (/\ Serving
      /\ ClientsAreOpen
      /\ BuffersAreOpen
      /\ OneOpens
      /\ StartedHaveNone
      /\ OneStream
      /\ FinishedAreUsed
      /\ NoIdleBuffer)'
  BY DEF IInv, Serving, ClientsAreOpen, BuffersAreOpen, OneOpens,
         StartedHaveNone, OneStream, FinishedAreUsed, NoIdleBuffer, Used,
         Sleep, bufferVars, processVars, threadVars
<1>. QED
  BY <1>1, <1>2, <1>3, <1>4 DEF IInv

(* The source.  It fills a buffer that is not finished.                    *)
LEMMA FillDataStep ==
  ASSUME IInv, FillData
  PROVE  IInv'
<1>1. TypeOK'
  BY DEF IInv, TypeOK, HeartbeatPlaces, FillData, Filling, processVars
<1>2. HeartbeatPlaces'
  BY DEF IInv, HeartbeatPlaces, FillData
<1>3. OneStream'
  BY DEF IInv, OneStream, FillData, Nowhere
<1>4. FinishedAreUsed'
  BY DEF IInv, FinishedAreUsed, FillData
<1>5. FinishedBuffersLeave'
  BY DEF IInv, FinishedBuffersLeave, FillData, Filling
<1>6. (/\ Serving
      /\ ClientsAreOpen
      /\ BuffersAreOpen
      /\ OneOpens
      /\ StartedHaveNone
      /\ NoIdleBuffer)'
  BY DEF IInv, Serving, ClientsAreOpen, BuffersAreOpen, OneOpens,
         StartedHaveNone, NoIdleBuffer, FillData, processVars
<1>. QED
  BY <1>1, <1>2, <1>3, <1>4, <1>5, <1>6 DEF IInv

(* The heartbeat drops its pointer.                                        *)
LEMMA FillNothingStep ==
  ASSUME IInv, FillNothing
  PROVE  IInv'
<1>1. TypeOK'
  BY DEF IInv, TypeOK, FillNothing, FreeUnused, processVars, threadVars
<1>2. HeartbeatPlaces'
  BY DEF IInv, HeartbeatPlaces, FillNothing
<1>3. OneStream'
  BY DEF IInv, OneStream, FillNothing, Nowhere
<1>4. FinishedAreUsed'
  BY DEF IInv, FinishedAreUsed, FillNothing, FreeUnused
<1>5. FinishedBuffersLeave'
  BY DEF IInv, FinishedBuffersLeave, FillNothing, FreeUnused, Filling
<1>6. (/\ Serving
      /\ ClientsAreOpen
      /\ BuffersAreOpen
      /\ OneOpens
      /\ StartedHaveNone
      /\ NoIdleBuffer)'
  BY DEF IInv, Serving, ClientsAreOpen, BuffersAreOpen, OneOpens,
         StartedHaveNone, NoIdleBuffer, FillNothing, processVars, threadVars
<1>. QED
  BY <1>1, <1>2, <1>3, <1>4, <1>5, <1>6 DEF IInv

(* The buffer is finished, under the only name it can have.                *)
LEMMA FillThrowsStep ==
  ASSUME IInv, FillThrows
  PROVE  IInv'
<1>1. TypeOK'
  BY DEF IInv, TypeOK, HeartbeatPlaces, FillThrows, Filling, processVars,
         threadVars
<1>2. HeartbeatPlaces'
  BY DEF IInv, HeartbeatPlaces, FillThrows, Filling
<1>3. FinishedAreUsed'
  BY DEF IInv, FinishedAreUsed, FillThrows, Used, threadVars
<1>4. FinishedBuffersLeave'
  BY DEF IInv, TypeOK, FinishedBuffersLeave, OneStream, FillThrows, Nowhere
<1>5. (/\ Serving
      /\ ClientsAreOpen
      /\ BuffersAreOpen
      /\ OneOpens
      /\ StartedHaveNone
      /\ OneStream
      /\ NoIdleBuffer)'
  BY DEF IInv, Serving, ClientsAreOpen, BuffersAreOpen, OneOpens,
         StartedHaveNone, OneStream, NoIdleBuffer, FillThrows, processVars,
         threadVars
<1>. QED
  BY <1>1, <1>2, <1>3, <1>4, <1>5 DEF IInv

(* The finished buffer leaves the container: if it is there, it is there   *)
(* under that name.                                                        *)
LEMMA HeartbeatRemovesStep ==
  ASSUME IInv, HeartbeatRemoves
  PROVE  IInv'
<1>1. TypeOK'
  BY DEF IInv, TypeOK, HeartbeatRemoves, FreeUnused, processVars, threadVars
<1>2. StartedHaveNone'
  BY DEF IInv, StartedHaveNone, HeartbeatRemoves, threadVars
<1>3. HeartbeatPlaces'
  BY DEF IInv, HeartbeatPlaces, HeartbeatRemoves
<1>4. OneStream'
  BY DEF IInv, OneStream, HeartbeatRemoves, Nowhere
<1>5. FinishedAreUsed'
  BY DEF IInv, FinishedAreUsed, HeartbeatRemoves, FreeUnused
<1>6. NoIdleBuffer'
  BY DEF IInv, NoIdleBuffer, HeartbeatRemoves, threadVars
<1>7. FinishedBuffersLeave'
  BY DEF IInv, TypeOK, FinishedBuffersLeave, HeartbeatRemoves, FreeUnused
<1>8. (Serving /\ ClientsAreOpen /\ BuffersAreOpen /\ OneOpens)'
  BY DEF IInv, Serving, ClientsAreOpen, BuffersAreOpen, OneOpens,
         HeartbeatRemoves, processVars, threadVars
<1>. QED
  BY <1>1, <1>2, <1>3, <1>4, <1>5, <1>6, <1>7, <1>8 DEF IInv

-----------------------------------------------------------------------------
(* The process.  Nothing is disturbed by the flag of the server ...        *)
LEMMA ShutdownStep ==
  ASSUME IInv, Shutdown
  PROVE  IInv'
<1>1. TypeOK'
  BY DEF IInv, TypeOK, Shutdown, bufferVars, hbVars, threadVars
<1>2. (/\ Serving
      /\ ClientsAreOpen
      /\ BuffersAreOpen
      /\ OneOpens
      /\ StartedHaveNone
      /\ HeartbeatPlaces
      /\ OneStream
      /\ FinishedAreUsed
      /\ NoIdleBuffer
      /\ FinishedBuffersLeave)'
  BY DEF IInv, Serving, ClientsAreOpen, BuffersAreOpen, OneOpens,
         StartedHaveNone, HeartbeatPlaces, OneStream, FinishedAreUsed,
         NoIdleBuffer, FinishedBuffersLeave, Used, Shutdown, bufferVars,
         hbVars, threadVars
<1>. QED
  BY <1>1, <1>2 DEF IInv

(* ... and nothing is left after a crash.                                  *)
LEMMA CrashStep ==
  ASSUME IInv, Crash
  PROVE  IInv'
<1>1. TypeOK'
  BY DEF IInv, TypeOK, Crash, Places, HeadPlaces
<1>2. Serving'
  BY DEF IInv, Serving, Crash
<1>3. ClientsAreOpen'
  BY DEF IInv, ClientsAreOpen, Crash
<1>4. BuffersAreOpen'
  BY DEF IInv, BuffersAreOpen, Crash
<1>5. OneOpens'
  BY DEF IInv, OneOpens, Crash
<1>6. StartedHaveNone'
  BY DEF IInv, StartedHaveNone, Crash
<1>7. HeartbeatPlaces'
  BY DEF IInv, HeartbeatPlaces, Crash
<1>8. OneStream'
  BY DEF IInv, OneStream, Crash
<1>9. FinishedAreUsed'
  BY DEF IInv, FinishedAreUsed, Crash
<1>10. NoIdleBuffer'
  BY DEF IInv, NoIdleBuffer, Crash
<1>11. FinishedBuffersLeave'
  BY DEF IInv, FinishedBuffersLeave, Crash
<1>. QED
  BY <1>1, <1>2, <1>3, <1>4, <1>5, <1>6, <1>7, <1>8, <1>9, <1>10, <1>11 DEF IInv

-----------------------------------------------------------------------------
(* At the start nobody points to anything.                                 *)
LEMMA InitIInv == Init => IInv
<1>. SUFFICES ASSUME Init PROVE IInv
  OBVIOUS
<1>1. TypeOK
  BY DEF Init, TypeOK, Places, HeadPlaces, Nowhere
<1>2. Serving /\ ClientsAreOpen /\ BuffersAreOpen /\ OneOpens
  BY DEF Init, Serving, ClientsAreOpen, BuffersAreOpen, OneOpens
<1>3. StartedHaveNone /\ HeartbeatPlaces /\ OneStream
  BY DEF Init, StartedHaveNone, HeartbeatPlaces, OneStream
<1>4. FinishedAreUsed /\ NoIdleBuffer /\ FinishedBuffersLeave
  BY DEF Init, FinishedAreUsed, NoIdleBuffer, FinishedBuffersLeave
<1>. QED
  BY <1>1, <1>2, <1>3, <1>4 DEF IInv

(* The cases of Next.                                                      *)
LEMMA NextIInv == IInv /\ [Next]_vars => IInv'
<1>. SUFFICES ASSUME IInv, [Next]_vars PROVE IInv'
  OBVIOUS
<1>1. ASSUME NEW t \in Threads,
             OpenCall(t) \/ Opening(t)
      PROVE  IInv'
  BY <1>1, OpenCallStep, LookupStep, StartStreamStep, StartFailsStep,
     SampleStep, RegisterStep
     DEF Opening
<1>2. ASSUME NEW t \in Threads,
             ReadCall(t) \/ Reading(t)
      PROVE  IInv'
  BY <1>2, ReadCallStep, ReadEndsStep, ReadCopiesStep DEF Reading
<1>3. ASSUME NEW t \in Threads,
             CloseCall(t) \/ Closing(t)
      PROVE  IInv'
  BY <1>3, CloseCallStep, DestroyStep, RemoveStep, CloseReturnStep DEF Closing
<1>4. CASE Heartbeat
  BY <1>4, SnapshotStep, PickStep, SleepStep, HeartbeatRemovesStep
     DEF Heartbeat
<1>5. CASE Source
  BY <1>5, FillDataStep, FillNothingStep, FillThrowsStep DEF Source
<1>6. CASE Shutdown \/ Crash
  BY <1>6, ShutdownStep, CrashStep
<1>7. CASE UNCHANGED vars
  <2>1. UNCHANGED <<streamHandles, filled, finished, clientHandles, pc, stream,
                    buffer, head, hb, todo, current, up, crashed>>
    BY <1>7 DEF vars, threadVars, bufferVars, hbVars, processVars
  <2>2. (TypeOK /\ Serving /\ ClientsAreOpen /\ BuffersAreOpen /\ OneOpens)'
    BY <2>1 DEF IInv, TypeOK, Serving, ClientsAreOpen, BuffersAreOpen, OneOpens
  <2>3. (StartedHaveNone /\ HeartbeatPlaces /\ OneStream)'
    BY <2>1 DEF IInv, StartedHaveNone, HeartbeatPlaces, OneStream
  <2>4. (FinishedAreUsed /\ NoIdleBuffer /\ FinishedBuffersLeave)'
    BY <2>1 DEF IInv, FinishedAreUsed, Used, NoIdleBuffer, FinishedBuffersLeave
  <2>. QED
    BY <2>2, <2>3, <2>4 DEF IInv
<1>. QED
  BY <1>1, <1>2, <1>3, <1>4, <1>5, <1>6, <1>7 DEF Next, Live

(* Every reachable state of the store satisfies the strengthening.         *)
THEOREM StoreInvariant == Spec => []IInv
<1>. QED
  BY InitIInv, NextIInv, PTL DEF Spec

(* The variables of the store keep their types: what the two containers,   *)
(* the client handles and the heartbeat's copy hold is what the code       *)
(* declares them to hold, and nothing else.                                *)
THEOREM StoreTypes == Spec => []TypeOK
<1>1. IInv => TypeOK
  BY DEF IInv
<1>. QED
  BY <1>1, StoreInvariant, PTL

(* DestroyHandle and CreateHandle: a buffer in the container has a         *)
(* registered client of its stream or a thread on its way to register or   *)
(* to remove it, however many threads, streams and buffers there are.      *)
THEOREM BuffersHaveClients == Spec => []NoIdleBuffer
<1>1. IInv => NoIdleBuffer
  BY DEF IInv
<1>. QED
  BY <1>1, StoreInvariant, PTL

(* The exception handler of Heartbeat: a buffer it has given up on is in   *)
(* the container only until its next step, so that an Open which finds it  *)
(* there is one that came in between.                                      *)
THEOREM FinishedLeave == Spec => []FinishedBuffersLeave
<1>1. IInv => FinishedBuffersLeave
  BY DEF IInv
<1>. QED
  BY <1>1, StoreInvariant, PTL

-----------------------------------------------------------------------------
(* What a step must not do, without the box.                               *)
Kept == \A s \in Streams : (streamHandles[s] # NoBuffer
                            /\ streamHandles'[s] # NoBuffer)
                              => streamHandles'[s] = streamHandles[s]

(* handleMutex is held from the lookup to the insertion, so that the       *)
(* insertion never finds a buffer: no step replaces one.                   *)
LEMMA StartStreamKeeps ==
  ASSUME IInv, NEW t \in Threads, StartStream(t)
  PROVE  Kept
<1>1. streamHandles[stream[t]] = NoBuffer
  BY DEF IInv, StartedHaveNone, StartStream, Go
<1>2. \A s \in Streams : s # stream[t] => streamHandles'[s] = streamHandles[s]
  BY DEF IInv, TypeOK, StartStream
<1>. QED
  BY <1>1, <1>2 DEF Kept

(* No other step puts a buffer into the container.                         *)
LEMMA NextKeeps == IInv /\ [Next]_vars => [Kept]_vars
<1>. SUFFICES ASSUME IInv, Next PROVE Kept
  BY DEF Kept
<1>. USE DEF Kept
<1>1. ASSUME NEW t \in Threads,
             OpenCall(t) \/ ReadCall(t) \/ CloseCall(t) \/ Reading(t)
      PROVE  streamHandles' = streamHandles
  BY <1>1 DEF OpenCall, ReadCall, CloseCall, Reading, ReadEnds, ReadCopies,
              bufferVars
<1>2. ASSUME NEW t \in Threads,
             Lookup(t) \/ StartFails(t) \/ Sample(t) \/ Register(t)
             \/ Destroy(t) \/ CloseReturn(t)
      PROVE  streamHandles' = streamHandles
  BY <1>2 DEF Lookup, StartFails, Sample, Register, Destroy, CloseReturn,
              bufferVars
<1>3. ASSUME NEW t \in Threads, Remove(t)
      PROVE  Kept
  BY <1>3 DEF IInv, TypeOK, Remove
<1>4. CASE HeartbeatRemoves
  BY <1>4 DEF IInv, TypeOK, HeartbeatRemoves
<1>5. ASSUME Snapshot \/ Pick \/ Sleep \/ Source \/ Shutdown
      PROVE  streamHandles' = streamHandles
  BY <1>5 DEF Snapshot, Pick, Sleep, Source, FillData, FillNothing, FillThrows,
              Shutdown, bufferVars
<1>6. CASE Crash
  BY <1>6 DEF Crash
<1>7. CASE UNCHANGED vars
  BY <1>7 DEF vars, bufferVars
<1>. QED
  BY <1>1, <1>2, <1>3, <1>4, <1>5, <1>6, <1>7, StartStreamKeeps
     DEF Next, Live, Opening, Closing, Heartbeat

(* CreateStreamHandle: a buffer in the container is never replaced by      *)
(* another, so the insert of line 62 never fails and a stream whose buffer *)
(* is there is not started a second time.                                  *)
THEOREM StoreNeverReplaces == Spec => NeverReplaced
<1>1. NeverReplaced <=> [][Kept]_vars
  BY DEF NeverReplaced, Kept
<1>. QED
  BY <1>1, StoreInvariant, NextKeeps, PTL DEF Spec
=============================================================================
