------------------------------- MODULE MCHosted --------------------------------
(* The hosted service as TLC checks it: requests are
   interchangeable, so are knowledge bases, and the first file is a PDF, the others are HTML. *)
EXTENDS HostedService, TLC

PdfAndHtml == [d \in Docs |-> IF d = 1 THEN "pdf" ELSE "html"]
Symmetry == Permutations(Requests) \cup Permutations(Kbs)
===============================================================================
