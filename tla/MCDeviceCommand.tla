--------------------------- MODULE MCDeviceCommand ---------------------------
(* Two commands on one device, of the forms the device configurations use. *)
EXTENDS DeviceCommand

mcRegs == {"mailbox", "coil", "switch", "mode"}

(* LGES battery controller: handshake through the mailbox.                 *)
Mailbox   == [coils |-> << >>, holdings |-> <<"mailbox">>, atomic |-> TRUE,
              pulse |-> FALSE, finalize |-> TRUE, validate |-> "ack"]
(* Circuit breaker: a momentary coil, and the position read back.          *)
Breaker   == [coils |-> <<"coil">>, holdings |-> << >>, atomic |-> TRUE,
              pulse |-> TRUE, finalize |-> FALSE, validate |-> "status"]
(* Air conditioner: two holding registers far apart, and no read-back.     *)
SetPoints == [coils |-> << >>, holdings |-> <<"switch", "mode">>, atomic |-> TRUE,
              pulse |-> FALSE, finalize |-> FALSE, validate |-> "none"]
(* What the configuration schema allows: two outputs in one pulse, names   *)
(* that the device does not know,                                          *)
TwoCoils  == [Breaker EXCEPT !.coils = <<"coil", "switch">>]
Unknown   == [SetPoints EXCEPT !.holdings = << >>]
(* and what write() is for: not atomic.                                    *)
Plain     == [SetPoints EXCEPT !.coils = <<"coil">>, !.holdings = <<"mode">>,
                               !.atomic = FALSE]

mcLoads == {[j \in Jobs |-> f] : f \in {Mailbox, Breaker, SetPoints, Plain}}
             \cup {[j \in Jobs |-> IF j = 1 THEN TwoCoils ELSE Unknown]}
=============================================================================
