------------------------------- MODULE MCSysNet -------------------------------
(* Instances of SysNet for TLC *)
EXTENDS SysNet

CONSTANTS driver, user

DriverOnly == {driver}
DriverAndUser == {driver, user}

Config(protocol, ssid, dhcp) ==
    [protocol |-> protocol, ssid |-> ssid, bssid |-> FALSE, dhcp |-> dhcp]

Station == {Config("infra", TRUE, TRUE)}
OffForGood == {"OFF"}
OffOrTemporarily == {"OFF", "TMP_OFF"}

StationAndAp == {Config("both", TRUE, TRUE), Config("none", FALSE, FALSE)}
=============================================================================
