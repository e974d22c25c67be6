----------------------------- MODULE MCBrowserRun -----------------------------
EXTENDS BrowserRun
=============================================================================
