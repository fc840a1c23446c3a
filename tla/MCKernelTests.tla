--------------------------- MODULE MCKernelTests ---------------------------
(* Ten tests, so that their numbers have one digit or two, and texts that  *)
(* are no number, are followed by something, or overflow an int.           *)
EXTENDS KernelTests

(* "", "x", "0", "-1", "01", "2x", "10", "11", "255", "257", "9999" *)
MCTexts == {
  <<>>, <<120>>, <<48>>, <<45, 49>>, <<48, 49>>, <<50, 120>>, <<49, 48>>, <<49, 49>>,
  <<50, 53, 53>>, <<50, 53, 55>>, <<57, 57, 57, 57>>}
MCAddresses == {0, 16, 43981}
=============================================================================
