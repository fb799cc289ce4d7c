-------------------------- MODULE VulkanSwapChain --------------------------
(***************************************************************************)
(* VulkanSwapChain (engine/rhi/vulkan/src/VulkanSwapChain.cpp): the images *)
(* of the window, which of them is current, and the recreation when the    *)
(* surface has changed.  A swap chain that is replaced is told from its    *)
(* successor by "chain", which alternates: the back buffer handles of the  *)
(* old one are no longer valid.                                            *)
(***************************************************************************)
EXTENDS VulkanDevice

CONSTANT ImageCount   \* the images of a swap chain, at least three in the code

ASSUME ImageAssumption == ImageCount \in Nat \ {0}

VARIABLES
  chain,          \* 0 or 1: which swap chain swapchain_ is
  retired,        \* it was given as oldSwapchain to a creation that failed
  current_image,  \* current_image_index_
  owned           \* the images acquired and not presented

swapChainVars == <<chain, retired, current_image, owned>>

Images == 0 .. ImageCount - 1

SwapChainInit == chain = 0 /\ retired = FALSE /\ current_image = 0 /\ owned = {}

BackBuffer == <<chain, current_image>>

ImageAvailable(f) == <<"image_available", f>>

\* One semaphore per image, made with the images.
RenderFinished(image) == <<"render_finished", image>>

\* Mutant: one semaphore per frame in flight.
RenderFinishedOfFrame(f) == <<"render_finished", f>>

CurrentRenderFinished(f) == RenderFinished(current_image)

\* vkAcquireNextImageKHR succeeds, also if the surface is suboptimal.
AcquireNextImage(f, image) ==
  /\ ~retired /\ image \notin owned
  /\ current_image' = image
  /\ owned' = owned \cup {image}
  /\ signalled' = signalled \cup {ImageAvailable(f)}
  /\ UNCHANGED <<chain, retired, pending, fences>>

\* Present: the presentation engine shows the image once the rendering is finished.
PresentImage(f) ==
  Operation({CurrentRenderFinished(f)}, {}, NoFence,
            [Nothing EXCEPT !.image = BackBuffer])

\* The presentation engine has taken an image.
Presented(operation) == owned' = owned \ {operation.uses.image[2]}

\* vkDeviceWaitIdle of Recreate
DeviceIdle == Idle

\* CreateSwapChain: the old images, their handles and semaphores are destroyed.  The index of the
\* current image stays.
CreateSwapChain ==
  /\ chain' = 1 - chain
  /\ retired' = FALSE
  /\ owned' = {}
  /\ signalled' = {s \in signalled : s[1] # "render_finished"}
  /\ UNCHANGED <<current_image, pending, fences>>

\* The creation fails after vkCreateSwapchainKHR has retired the old swap chain.
CreateSwapChainFails ==
  /\ retired' = TRUE
  /\ UNCHANGED <<chain, current_image, owned, deviceVars>>

DestroySwapChainResources ==
  /\ owned' = {} /\ retired' = FALSE /\ current_image' = 0 /\ chain' = 0
=============================================================================
