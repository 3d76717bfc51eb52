---------------------------- MODULE MCMailThreads ----------------------------
(***************************************************************************)
(* Mails for the thread tables.                                            *)
(***************************************************************************)
EXTENDS MailThreads

Mail(identifier, references, subject, reply, stamp) ==
  [identifier |-> identifier, references |-> references, subject |-> subject,
   reply |-> reply, stamp |-> stamp]

\* Two answers with the same subject that name no mail, an answer to the later
\* one, and an answer to both of these.
MCHeaders ==
  {Mail(1, <<>>, "a", TRUE, 2), Mail(2, <<1>>, "a", TRUE, 3), Mail(3, <<1, 2>>, "a", TRUE, 4),
   Mail(4, <<>>, "a", TRUE, 1)}

\* Two answers that name no mail, and two mails from slow clocks, each with the
\* subject of one of them and a reference to the other.
MCLate ==
  {Mail(1, <<>>, "b", TRUE, 4), Mail(2, <<>>, "a", TRUE, 3), Mail(3, <<2>>, "b", FALSE, 2),
   Mail(4, <<1>>, "a", FALSE, 1)}

=============================================================================
