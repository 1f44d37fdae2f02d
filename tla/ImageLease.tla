------------------------------ MODULE ImageLease ------------------------------
(***************************************************************************)
(* What the wrapper promises about the memory behind the images it passes  *)
(* to the application: a buffer is handed from the driver to the wrapper,  *)
(* lent to one image callback at a time, and handed back; while it is away *)
(* from the driver its image does not change; nothing is lent when no      *)
(* capture handle exists.                                                  *)
(*                                                                         *)
(* CaptureHandle implements this specification (see MCCaptureHandle).      *)
(***************************************************************************)
EXTENDS Naturals

CONSTANT Buffers          \* the image buffers of one camera

VARIABLES
  owner,                  \* who may access each buffer
  image,                  \* number of the frame each buffer holds, 0: none or torn
  open                    \* does a capture handle exist?

vars == <<owner, image, open>>

Owners == {"driver", "filling", "wrapper", "user"}

TypeOK ==
  /\ owner \in [Buffers -> Owners]
  /\ image \in [Buffers -> Nat]
  /\ open \in BOOLEAN

Init ==
  /\ owner = [b \in Buffers |-> "driver"]
  /\ image = [b \in Buffers |-> 0]
  /\ open = FALSE

Open ==
  /\ ~open
  /\ open' = TRUE
  /\ UNCHANGED <<owner, image>>

\* A capture handle ends only when no callback has a buffer any more.
Close ==
  /\ open
  /\ \A b \in Buffers : owner[b] # "user"
  /\ open' = FALSE
  /\ UNCHANGED <<owner, image>>

Pass(b, from, to) ==
  /\ owner[b] = from
  /\ owner' = [owner EXCEPT ![b] = to]

\* The driver fills one buffer at a time and only buffers it owns.
Fill(b) ==
  /\ \A c \in Buffers : owner[c] # "filling"
  /\ Pass(b, "driver", "filling")
  /\ image' = [image EXCEPT ![b] = 0]
  /\ UNCHANGED open

\* Frames are numbered upwards in the order in which they are completed.
Complete(b) ==
  /\ Pass(b, "filling", "driver")
  /\ \A c \in Buffers : image'[b] > image[c]
  /\ image' = [image EXCEPT ![b] = image'[b]]
  /\ UNCHANGED open

\* Only a buffer with a complete image is taken out of the driver's hands.
Take(b) ==
  /\ image[b] # 0
  /\ Pass(b, "driver", "wrapper")
  /\ UNCHANGED <<image, open>>

Lend(b) ==
  /\ open
  /\ Pass(b, "wrapper", "user")
  /\ UNCHANGED <<image, open>>

Reclaim(b) ==
  /\ Pass(b, "user", "wrapper")
  /\ UNCHANGED <<image, open>>

Return(b) ==
  /\ Pass(b, "wrapper", "driver")
  /\ UNCHANGED <<image, open>>

\* The process ends: no thread of it accesses a buffer any more.
Abandon ==
  /\ open
  /\ open' = FALSE
  /\ owner' = [b \in Buffers |->
                 IF owner[b] \in {"wrapper", "user"} THEN "wrapper" ELSE "driver"]
  /\ UNCHANGED image

Next ==
  \/ Open \/ Close \/ Abandon
  \/ \E b \in Buffers :
        Fill(b) \/ Complete(b) \/ Take(b) \/ Lend(b) \/ Reclaim(b) \/ Return(b)

Spec == Init /\ [][Next]_vars
===============================================================================
