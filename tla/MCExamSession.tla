--------------------------- MODULE MCExamSession ---------------------------
(* ExamSession on a small instance. *)
EXTENDS ExamSession
=============================================================================
