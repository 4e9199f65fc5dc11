------------------------------ MODULE MCTunnel -----------------------------
(* Three bytes each way, two addresses.  The site answers with a flight    *)
(* that is too long, one with a hello too short, one cut short, an alert.  *)
EXTENDS Tunnel

MCFlights == {<<"hello", "ccs", "enc">>, <<"hello", "ccs", "enc", "enc">>,
              <<"empty", "hello", "ccs", "enc">>, <<"hello", "enc">>, <<"hello", "alert">>}
=============================================================================
