------------------------------- MODULE Attachments -----------------------------
(***************************************************************************)
(* The files people attach to messages: what an upload is decided to be,   *)
(* its row and its object in the bucket, its removal, and the              *)
(* transcription of a recording, which is a billed provider call.          *)
(* Files are numbered in the order they are uploaded.                      *)
(***************************************************************************)
EXTENDS Integers, Sequences, FiniteSets

CONSTANTS MaxFiles,       \* bound: how many files are ever uploaded
          Scribes,        \* requests and runs that transcribe
          None

VARIABLES uploaded,       \* how many files were uploaded
          file,           \* the rows: file number -> row, None when there is none
          object,         \* the files whose bytes are in the bucket
          scribe,         \* a transcription in progress
          removing,       \* a removal in progress
          charged         \* speech references in the ledger

attVars == <<uploaded, file, object, scribe, removing, charged>>

Files == 1..MaxFiles
Kinds == {"image", "audio", "file"}
Statuses == {"ready", "processing", "failed"}
(* extracted: nothing yet, a transcript with no words in it, or one with.  *)
Extractions == {"none", "blank", "words"}
Unbound == 0              \* message: the turn whose question carries the file
Rows == [kind : Kinds, message : Int, status : Statuses, extracted : Extractions]
Idle == [at |-> "idle", file |-> 0]

Exists(f) == file[f] # None

AttInit ==
  /\ uploaded = 0 /\ file = [f \in Files |-> None] /\ object = {} /\ charged = {}
  /\ scribe = [s \in Scribes |-> Idle] /\ removing = Idle

(* A later moment: images and transcribed recordings, none sent yet.       *)
AttUploaded ==
  /\ uploaded = MaxFiles /\ object = Files /\ charged = {}
  /\ file \in [Files -> {[kind |-> kind, message |-> Unbound, status |-> "ready",
                          extracted |-> IF kind = "image" THEN "none" ELSE "words"]
                          : kind \in {"image", "audio"}}]
  /\ scribe = [s \in Scribes |-> Idle] /\ removing = Idle

--------------------------------------------------------------------------------
(* What the first bytes can be, by the signature each of the three sniffs  *)
(* looks for.  RIFF is one container with three forms, ZIP one with many.  *)
ImageHeads == {"png", "jpeg", "gif", "riff/webp"}
WorkbookHeads == {"zip/workbook"}
AudioHeads == {"ogg", "riff/wave", "id3", "mpeg", "flac", "ebml", "ftyp"}
Heads == ImageHeads \cup WorkbookHeads \cup AudioHeads \cup {"zip/other", "riff/avi"}

SniffImage(head) == head \in ImageHeads
SniffWorkbook(head) == head \in WorkbookHeads
SniffAudio(head) == head \in AudioHeads

(* The sizes that are told apart, in megabytes, and the longest edge a     *)
(* header can declare; 0 where the header yields none.                     *)
MaxMegabytes == [image |-> 10, file |-> 15, audio |-> 25]
MaxEdge == 12000

(* validateUpload: the kind of an upload, or None where it is refused.     *)
ValidateUpload(head, megabytes, edge) ==
  LET kind == IF SniffImage(head) THEN "image"
              ELSE IF SniffWorkbook(head) THEN "file"
              ELSE IF SniffAudio(head) THEN "audio" ELSE None
  IN  IF kind = None THEN None
      ELSE IF megabytes > MaxMegabytes[kind] \/ (kind = "image" /\ edge > MaxEdge)
        THEN None ELSE kind

(* What a caller can send, one upload on each side of every limit.         *)
Uploads == [head : Heads, megabytes : {10, 11, 15, 16, 25, 26}, edge : {0, MaxEdge, MaxEdge + 1}]
Acceptable == {kind \in Kinds :
                 \E u \in Uploads : ValidateUpload(u.head, u.megabytes, u.edge) = kind}

(* upload: the object first, then the row; nothing where the first fails.  *)
(* A crash or a refused insert between the two leaves an object no row     *)
(* names.                                                                  *)
Upload(kind, recorded) ==
  LET f == uploaded + 1
  IN  /\ f \in Files /\ kind \in Acceptable
      /\ uploaded' = f
      /\ object' = object \cup {f}
      /\ file' = IF recorded
                   THEN [file EXCEPT ![f] = [kind |-> kind, message |-> Unbound,
                           status |-> "ready", extracted |-> "none"]]
                   ELSE file
      /\ UNCHANGED <<scribe, removing, charged>>

(* remove: the row is read, deleted by a statement that asks again whether *)
(* it is unbound, and then the object goes, or stays where the bucket does *)
(* not answer or the process dies.                                         *)
StartRemove(f) ==
  /\ removing = Idle /\ Exists(f) /\ file[f].message = Unbound
  /\ removing' = [at |-> "read", file |-> f]
  /\ UNCHANGED <<uploaded, file, object, scribe, charged>>

(* deleteUnbound, the statement's condition.                               *)
DeletableRow(f) == Exists(f) /\ file[f].message = Unbound

DeleteRow ==
  /\ removing.at = "read"
  /\ LET f == removing.file
     IN  IF DeletableRow(f)
           THEN file' = [file EXCEPT ![f] = None] /\ removing' = [removing EXCEPT !.at = "deleted"]
           ELSE UNCHANGED file /\ removing' = Idle
  /\ UNCHANGED <<uploaded, object, scribe, charged>>

RemoveObject(cleared) ==
  /\ removing.at = "deleted"
  /\ object' = IF cleared THEN object \ {removing.file} ELSE object
  /\ removing' = Idle
  /\ UNCHANGED <<uploaded, file, scribe, charged>>

--------------------------------------------------------------------------------
(* transcribeAttachment.  The checks rest on one read of the row: a        *)
(* recording with a transcript is answered from it, one that is being      *)
(* transcribed is refused.                                                 *)
StartTranscription(s, f) ==
  /\ scribe[s] = Idle /\ Exists(f)
  /\ file[f].kind = "audio" /\ file[f].extracted = "none" /\ file[f].status # "processing"
  /\ scribe' = [scribe EXCEPT ![s] = [at |-> "read", file |-> f]]
  /\ UNCHANGED <<uploaded, file, object, removing, charged>>

(* An update of a row that is gone changes nothing and raises nothing.     *)
Patched(f, status, extracted) ==
  IF Exists(f) THEN [file EXCEPT ![f].status = status,
                       ![f].extracted = IF extracted = "none" THEN @ ELSE extracted]
               ELSE file

MarkProcessing(s) ==
  /\ scribe[s].at = "read"
  /\ file' = Patched(scribe[s].file, "processing", "none")
  /\ scribe' = [scribe EXCEPT ![s].at = "marked"]
  /\ UNCHANGED <<uploaded, object, removing, charged>>

(* The object is read outside the try: where the bucket does not give it,  *)
(* the call ends with the row still processing.                            *)
ReadRecording(s, readable) ==
  /\ scribe[s].at = "marked"
  /\ readable => scribe[s].file \in object
  /\ scribe' = [scribe EXCEPT ![s] = IF readable THEN [@ EXCEPT !.at = "heard"] ELSE Idle]
  /\ UNCHANGED <<uploaded, file, object, removing, charged>>

(* The provider answers with words, with none, or not at all.              *)
Transcribe(s, extracted) ==
  /\ scribe[s].at = "heard"
  /\ IF extracted = "none"
       THEN /\ file' = Patched(scribe[s].file, "failed", "none")
            /\ scribe' = [scribe EXCEPT ![s] = Idle]
       ELSE /\ file' = Patched(scribe[s].file, "ready", extracted)
            /\ scribe' = [scribe EXCEPT ![s].at = "saved"]
  /\ UNCHANGED <<uploaded, object, removing, charged>>

(* recordAndCharge: one reference for a recording, so a second transcript  *)
(* of it costs nothing; short credits raise after the transcript is kept.  *)
ChargeTranscript(s, paid) ==
  /\ scribe[s].at = "saved"
  /\ charged' = IF paid THEN charged \cup {scribe[s].file} ELSE charged
  /\ scribe' = [scribe EXCEPT ![s] = Idle]
  /\ UNCHANGED <<uploaded, file, object, removing>>

(* The process that was transcribing or removing dies.                     *)
CrashFile ==
  /\ \/ \E s \in Scribes : scribe[s] # Idle /\ scribe' = [scribe EXCEPT ![s] = Idle]
                             /\ UNCHANGED removing
     \/ removing # Idle /\ removing' = Idle /\ UNCHANGED scribe
  /\ UNCHANGED <<uploaded, file, object, charged>>

AttNext ==
  \/ \E kind \in Kinds, recorded \in BOOLEAN : Upload(kind, recorded)
  \/ \E f \in Files : StartRemove(f)
  \/ DeleteRow
  \/ \E cleared \in BOOLEAN : RemoveObject(cleared)
  \/ \E s \in Scribes, f \in Files : StartTranscription(s, f)
  \/ \E s \in Scribes : MarkProcessing(s)
  \/ \E s \in Scribes, readable \in BOOLEAN : ReadRecording(s, readable)
  \/ \E s \in Scribes, extracted \in Extractions : Transcribe(s, extracted)
  \/ \E s \in Scribes, paid \in BOOLEAN : ChargeTranscript(s, paid)
  \/ CrashFile

AttSpec == AttInit /\ [][AttNext]_attVars

AttTypeOK ==
  /\ uploaded \in 0..MaxFiles /\ object \subseteq 1..uploaded /\ charged \subseteq Files
  /\ \A f \in Files : Exists(f) => file[f] \in Rows
  /\ removing.at \in {"idle", "read", "deleted"}
  /\ \A s \in Scribes : scribe[s].at \in {"idle", "read", "marked", "heard", "saved"}

(* A row has its object in the bucket, whatever a removal, a crash or a    *)
(* send did to it; a recording that was charged for has its transcript,    *)
(* unless the row is gone.                                                 *)
NoBrokenFiles ==
  \A f \in Files : Exists(f) => /\ f \in object
                                /\ f \in charged => file[f].extracted # "none"
================================================================================
