----------------------------- MODULE WifiStation -----------------------------
(***************************************************************************)
(* The WiFi station as main.c drives it: event_handler connects again      *)
(* after a disconnection, a bounded number of times since it last had an   *)
(* address, and then gives up; wifi_init_sta waits for either bit.  What   *)
(* access point and DHCP server do is external and may happen at any time. *)
(***************************************************************************)
EXTENDS Naturals

CONSTANT MaxRetry     \* ESP_MAXIMUM_RETRY

ASSUME WifiAssumption == MaxRetry \in Nat

VARIABLES
  station,    \* "off", "connecting", "associated", "online" (has an address), or "down"
  retryNum,   \* s_retry_num
  bits,       \* s_wifi_event_group
  failures    \* history: disconnections since it last had an address

wifiVars == << station, retryNum, bits, failures >>

WifiInit == station = "off" /\ retryNum = 0 /\ bits = {} /\ failures = 0

\* esp_wifi_start leads to STA_START, whose handler connects.
WifiStart ==
  /\ station = "off"
  /\ station' = "connecting"
  /\ UNCHANGED << retryNum, bits, failures >>

Associate ==
  /\ station = "connecting"
  /\ station' = "associated"
  /\ UNCHANGED << retryNum, bits, failures >>

\* Variant: the retries are counted over the whole life of the station.
GotIpKeepsCount ==
  /\ station = "associated"
  /\ station' = "online"
  /\ bits' = bits \cup {"CONNECTED"}
  /\ failures' = 0
  /\ UNCHANGED retryNum

GotIp ==
  /\ station = "associated"
  /\ station' = "online"
  /\ retryNum' = 0
  /\ bits' = bits \cup {"CONNECTED"}
  /\ failures' = 0

\* Variant: one retry too many.
RetryOnceMore ==
  /\ retryNum <= MaxRetry
  /\ station' = "connecting"
  /\ retryNum' = retryNum + 1
  /\ UNCHANGED bits

Retry ==
  /\ retryNum < MaxRetry
  /\ station' = "connecting"
  /\ retryNum' = retryNum + 1
  /\ UNCHANGED bits

\* Variant: tells nobody.
GiveUpSilently ==
  /\ retryNum >= MaxRetry
  /\ station' = "down"
  /\ UNCHANGED << retryNum, bits >>

\* Nothing clears the bits, and nobody connects again.
GiveUp ==
  /\ retryNum >= MaxRetry
  /\ station' = "down"
  /\ bits' = bits \cup {"FAIL"}
  /\ UNCHANGED retryNum

\* STA_DISCONNECTED: an attempt failed, or the connection was lost.
Disconnected ==
  /\ station \in {"connecting", "associated", "online"}
  /\ failures' = failures + 1
  /\ Retry \/ GiveUp

WifiNext == Associate \/ GotIp \/ Disconnected

\* xEventGroupWaitBits returns when either is set.
WifiWaitOver == bits \cap {"CONNECTED", "FAIL"} # {}

\* The station gives up after MaxRetry + 1 disconnections since it last had an address,
\* neither earlier nor later.
GivesUpAfterRetries ==
  /\ failures <= MaxRetry + 1
  /\ station = "down" <=> failures = MaxRetry + 1
=============================================================================
