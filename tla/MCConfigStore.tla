--------------------------- MODULE MCConfigStore ---------------------------
(* Constants for checking ConfigStore with TLC. *)
EXTENDS ConfigStore

MCServer == [name |-> "", velocity |-> "5", zero |-> FALSE]

MCForm(place, sensor) ==
  [server |-> [MCServer EXCEPT !.name = "5"], notify |-> "0",
   dev |-> [r \in Radars |-> [place |-> place, sensor |-> sensor]],
   numbers |-> TRUE]

\* A form that is good throughout; forms with a text for a number, in each of
\* the places where it is converted; one with a segment of size zero; one with
\* a '%' and one that is not UTF-8.
MCForms ==
  LET good == MCForm("5", "5")
  IN  {good, MCForm("0", ""),
       [MCForm("", "5") EXCEPT !.notify = ""],
       [good EXCEPT !.server.zero = TRUE],
       [good EXCEPT !.server.name = "50%", !.server.velocity = ""],
       [good EXCEPT !.server.name = "xFF"],
       [good EXCEPT !.numbers = FALSE]}
=============================================================================
